---- MODULE Spec2Model ----
(***************************************************************************)
(* Editorial front-end: client-side data layer.                            *)
(*                                                                         *)
(* The module models the query cache (keys, invalidation, refetch with the *)
(* configured retry), the pages' mutations with their onSuccess / onError  *)
(* handlers, the article form (validation schema, manual submit, periodic  *)
(* auto-save), the delete pre-check of the categories and networks pages,  *)
(* and the category association rules used by the different consumers.     *)
(***************************************************************************)
EXTENDS Integers, Sequences, FiniteSets, TLC

\* ------------------------------------------------------------------------
\* Bounds of the model
\* ------------------------------------------------------------------------
MaxId == 1          \* entity ids are 0..MaxId, as a number or as a string
MaxCats == 2        \* longest categoryIds list of an article
MaxTable == 2       \* longest category collection of a lookup table
MaxPending == 1     \* requests in flight at the same time
MaxRows == 2        \* longest article collection of the list and of the dashboard
MaxDeletes == 1     \* articles deleted from the server's collection
MaxToggles == 2     \* featured writes the server applies
MaxTimers == 3      \* timers the search box arms, the one armed on mount included

\* ------------------------------------------------------------------------
\* Identifiers: `number | string`, compared through String(id)
\* ------------------------------------------------------------------------
\* An id is a number n or the decimal string "n"; null/undefined is Null.
IdVals == [t : {"num", "str"}, v : 0..MaxId]
Null == [t |-> "none", v |-> 0]

\* String(id): a number becomes its decimal string, a string is unchanged.
Str(id) == [t |-> "str", v |-> id.v]

\* JavaScript truthiness of an id: null, undefined and the number 0 are falsy.
Truthy(id) == id.t # "none" /\ ~(id.t = "num" /\ id.v = 0)

\* sequences over S of length 0..n
SeqUpTo(S, n) == UNION {[1..k -> S] : k \in 0..n}

\* elements of a sequence
Range(s) == {s[i] : i \in DOMAIN s}

\* a.categoryIds?.map(String)
MapString(s) == [i \in DOMAIN s |-> Str(s[i])]

\* ------------------------------------------------------------------------
\* Article (the fields the association rules read) and Category
\* ------------------------------------------------------------------------
\* categoryIds?: hasCategoryIds = FALSE models an absent list.
\* categoryId?, networkId?: Null models null / undefined.
Article(hasIds, ids, cid, nid) ==
    [hasCategoryIds |-> hasIds, categoryIds |-> ids, categoryId |-> cid, networkId |-> nid]

CategoryShapes ==
    {Article(FALSE, <<>>, cid, Null) : cid \in IdVals \cup {Null}}
    \cup {Article(TRUE, ids, cid, Null) : ids \in SeqUpTo(IdVals, MaxCats), cid \in IdVals \cup {Null}}

\* a category: its id and its name; catMap.get(...) ?? null gives NoCategory
Category(id, name) == [id |-> id, name |-> name]
NoCategory == Category(Null, "null")

\* the category collections of length 0..MaxTable; the i-th entry is named
\* after its position, so that two entries of one id are told apart
Tables ==
    {[i \in DOMAIN ids |-> Category(ids[i], ToString(i))] : ids \in SeqUpTo(IdVals, MaxTable)}

\* ------------------------------------------------------------------------
\* Association rules, one definition per consumer
\* ------------------------------------------------------------------------
\* new Map(categories.map(c => [String(c.id), c])): on a duplicate key the
\* later entry overwrites the earlier one.
buildCategoryMap(cats) ==
    [k \in {Str(cats[i].id) : i \in DOMAIN cats} |->
        cats[CHOOSE i \in DOMAIN cats :
                /\ Str(cats[i].id) = k
                /\ \A j \in DOMAIN cats : Str(cats[j].id) = k => j <= i]]

\* catMap.get(key) ?? null
MapGet(m, k) == IF k \in DOMAIN m THEN m[k] ELSE NoCategory

resolveCategory_scalarFirst(article, catMap) ==
    IF article.categoryId.t # "none" THEN MapGet(catMap, Str(article.categoryId))
    ELSE IF Len(article.categoryIds) > 0 THEN MapGet(catMap, Str(article.categoryIds[1]))
    ELSE NoCategory

resolveCategory(article, catMap) ==
    LET ids == IF article.hasCategoryIds THEN MapString(article.categoryIds) ELSE <<>>
    IN  IF Len(ids) > 0 THEN MapGet(catMap, ids[1])
        ELSE IF article.categoryId.t # "none" THEN MapGet(catMap, Str(article.categoryId))
        ELSE NoCategory

\* ArticlesPage table row:
\* article.categoryIds?.map(String) ?? (article.categoryId ? [String(article.categoryId)] : [])
allCatIds(article) ==
    IF article.hasCategoryIds THEN MapString(article.categoryIds)
    ELSE IF Truthy(article.categoryId) THEN <<Str(article.categoryId)>>
    ELSE <<>>

filterCatIds_truthyScalar(article) ==
    LET artIds == IF article.hasCategoryIds THEN MapString(article.categoryIds) ELSE <<>>
    IN  IF Len(artIds) > 0 THEN artIds
        ELSE IF Truthy(article.categoryId) THEN <<Str(article.categoryId)>>
        ELSE <<>>

\* ArticlesPage category filter: the ids tested against the selected set.
filterCatIds(article) ==
    LET artIds == IF article.hasCategoryIds THEN MapString(article.categoryIds) ELSE <<>>
    IN  IF Len(artIds) > 0 THEN artIds
        ELSE IF article.categoryId.t # "none" THEN <<Str(article.categoryId)>>
        ELSE <<>>

\* DashboardPage aggregate; the pie data keys each id with String(cid).
getArticleCategoryIds(article) ==
    IF article.hasCategoryIds /\ Len(article.categoryIds) > 0 THEN article.categoryIds
    ELSE IF article.categoryId.t # "none" THEN <<article.categoryId>>
    ELSE <<>>

\* CategoriesPage per-category count: the ids one article is counted under.
countCatIds(article) ==
    IF article.hasCategoryIds THEN MapString(article.categoryIds)
    ELSE IF Truthy(article.categoryId) THEN <<Str(article.categoryId)>>
    ELSE <<>>

Consumers == {"row", "filter", "dashboard", "count"}


\* ------------------------------------------------------------------------
\* Query cache: keys and prefix invalidation
\* ------------------------------------------------------------------------
KeyArticlesAll == <<"articles", "all">>
KeyArticle == <<"article", "id">>
KeyCategories == <<"categories">>
KeyNetworks == <<"networks">>
KeyNotifications == <<"notifications">>

QueryKeys == {KeyArticlesAll, KeyArticle, KeyCategories, KeyNetworks, KeyNotifications}

IsPrefix(p, k) == Len(p) <= Len(k) /\ \A i \in 1..Len(p) : p[i] = k[i]

\* qc.invalidateQueries({ queryKey: prefix }): every cached key the prefix matches
invalidateQueries(prefix) == {k \in QueryKeys : IsPrefix(prefix, k)}

\* queryClient defaultOptions: a failed query is retried `retry` times.
QueryRetry == 1

\* the retryer's decision after the failureCount-th consecutive failure
shouldRetry_twice(failureCount) == failureCount < QueryRetry + 1

shouldRetry(failureCount) == failureCount < QueryRetry

Pages == {"articles", "form", "categories", "networks", "notifications", "dashboard"}

\* the queries a mounted page observes
ActiveKeys(p) ==
    CASE p = "articles"      -> {KeyArticlesAll, KeyCategories, KeyNetworks}
      [] p = "form"          -> {KeyArticle, KeyCategories, KeyNetworks}
      [] p = "categories"    -> {KeyCategories, KeyArticlesAll}
      [] p = "networks"      -> {KeyNetworks, KeyArticlesAll}
      [] p = "notifications" -> {KeyNotifications, KeyArticlesAll}
      [] OTHER               -> {KeyArticlesAll, KeyCategories, KeyNotifications}

\* ------------------------------------------------------------------------
\* Transport: the response interceptor
\* ------------------------------------------------------------------------
Undefined == "<undefined>"
Fallback == "Une erreur est survenue"
CategoryInUseMsg == "Impossible de supprimer: categorie utilisee par des articles"
NetworkInUseMsg == "Impossible de supprimer: reseau utilise par des articles"
Conflict == 409
NoStatus == 0       \* err.status is undefined: no response was received

\* the raw axios errors: without a response, or with a non-2xx response
RawErrors ==
    {[response |-> FALSE, status |-> NoStatus, bodyMessage |-> Undefined, message |-> m] :
        m \in {"", "Network Error"}}
    \cup {[response |-> TRUE, status |-> s, bodyMessage |-> b, message |-> "Request failed"] :
        s \in {Conflict, 500}, b \in {Undefined, "", "Conflict", CategoryInUseMsg, NetworkInUseMsg}}

interceptor_bodyAsIs(error) ==
    [msg |-> IF error.response /\ error.bodyMessage # Undefined THEN error.bodyMessage
             ELSE IF error.message # "" THEN error.message
             ELSE Fallback,
     status |-> IF error.response THEN error.status ELSE NoStatus]

interceptor_dropStatus(error) ==
    [msg |-> IF error.response /\ error.bodyMessage \notin {Undefined, ""} THEN error.bodyMessage
             ELSE IF error.message # "" THEN error.message
             ELSE Fallback,
     status |-> NoStatus]

\* msg = response.data.message || error.message || fallback; status preserved
interceptor(error) ==
    [msg |-> IF error.response /\ error.bodyMessage \notin {Undefined, ""} THEN error.bodyMessage
             ELSE IF error.message # "" THEN error.message
             ELSE Fallback,
     status |-> IF error.response THEN error.status ELSE NoStatus]

NoError == [msg |-> "", status |-> NoStatus]

\* ------------------------------------------------------------------------
\* Article form: values and validation schema
\* ------------------------------------------------------------------------
MinTitle == 5
MaxTitle == 255
MinContent == 50
MinCategories == 1

\* a text field is modelled by its length, the category list by its size
TitleLens == {0, MinTitle - 1, MinTitle, MaxTitle + 1}
ContentLens == {0, MinContent - 1, MinContent}
CategoryCounts == {0, MinCategories}
NetworkValues == {"null", "", "net"}

\* the values a valid article holds
ValidValues == [title |-> MinTitle, content |-> MinContent, categoryIds |-> MinCategories,
                networkId |-> "net"]

FormValues == [title : TitleLens, content : ContentLens, categoryIds : CategoryCounts,
               networkId : NetworkValues]
defaultValues == [title |-> 0, content |-> 0, categoryIds |-> 0, networkId |-> "null"]
NoValues == [title |-> -1, content |-> -1, categoryIds |-> -1, networkId |-> "none"]

\* the zod schema (fields with a constraint that can fail on these values)
schema(values) ==
    /\ values.title >= MinTitle /\ values.title <= MaxTitle
    /\ values.content >= MinContent
    /\ values.categoryIds >= MinCategories
    /\ values.networkId \notin {"null", ""}

Statuses == {"draft", "published", "archived"}

\* ------------------------------------------------------------------------
\* Mutations and their handlers
\* ------------------------------------------------------------------------
FormMutations == {"form.createMut", "form.updateMut", "form.statusMut", "form.notifyMut",
                  "form.autoSave"}
ListMutations == {"list.deleteMut", "list.statusMut", "list.notifyMut", "list.featuredMut",
                  "list.bulkStatus"}
CategoryMutations == {"cat.createMut", "cat.updateMut", "cat.deleteMut"}
NetworkMutations == {"net.createMut", "net.updateMut", "net.deleteMut"}
NotificationMutations == {"notif.sendMut"}
Mutations == FormMutations \cup ListMutations \cup CategoryMutations \cup NetworkMutations
             \cup NotificationMutations

\* the mutations that write an article
ArticleWrites == {"form.createMut", "form.updateMut", "form.statusMut", "form.autoSave",
                  "list.deleteMut", "list.statusMut", "list.featuredMut", "list.bulkStatus"}
NotifyCalls == {"form.notifyMut", "list.notifyMut", "notif.sendMut"}

\* ArticleFormPage: what each success path invalidates
ArticleFormOnSuccess(mut) ==
    CASE mut = "form.createMut" -> invalidateQueries(<<"articles">>)
      [] mut = "form.updateMut" -> invalidateQueries(<<"articles">>) \cup invalidateQueries(<<"article", "id">>)
      [] mut = "form.statusMut" -> invalidateQueries(<<"articles">>) \cup invalidateQueries(<<"article", "id">>)
      [] mut = "form.notifyMut" -> {}
      [] OTHER                  -> {}     \* doAutoSave: .then(() => setSaveState('saved'))

\* ArticlesPage: what each success path invalidates
ArticlesPageOnSuccess(mut) ==
    CASE mut = "list.deleteMut"   -> invalidateQueries(<<"articles">>)
      [] mut = "list.statusMut"   -> invalidateQueries(<<"articles">>)
      [] mut = "list.notifyMut"   -> {}
      [] mut = "list.featuredMut" -> invalidateQueries(<<"articles">>)
      [] OTHER                    -> invalidateQueries(<<"articles">>)   \* applyBulkStatus

\* CategoriesPage: createMut, updateMut and deleteMut invalidate ['categories']
CategoriesPageOnSuccess_nothing(mut) == {}

CategoriesPageOnSuccess(mut) == invalidateQueries(<<"categories">>)

\* NetworksPage: createMut, updateMut and deleteMut invalidate ['networks']
NetworksPageOnSuccess(mut) == invalidateQueries(<<"networks">>)

\* NotificationsPage sendMut
NotificationsPageOnSuccess(mut) == invalidateQueries(<<"notifications">>)

OnSuccessKeys(mut) ==
    IF mut \in FormMutations THEN ArticleFormOnSuccess(mut)
    ELSE IF mut \in ListMutations THEN ArticlesPageOnSuccess(mut)
    ELSE IF mut \in CategoryMutations THEN CategoriesPageOnSuccess(mut)
    ELSE IF mut \in NetworkMutations THEN NetworksPageOnSuccess(mut)
    ELSE NotificationsPageOnSuccess(mut)

\* ------------------------------------------------------------------------
\* ArticlesPage list view: the filter chain and the sort of `filtered`
\* ------------------------------------------------------------------------
Num(n) == [t |-> "num", v |-> n]

\* A text is the sequence of its characters, over the letters a, b, c in
\* both cases.
toLowerCase(s) ==
    [i \in DOMAIN s |-> CASE s[i] = "A" -> "a" [] s[i] = "B" -> "b" [] s[i] = "C" -> "c"
                          [] OTHER -> s[i]]

\* s.includes(q)
includes(s, q) == \E i \in 0..(Len(s) - Len(q)) : SubSeq(s, i + 1, i + Len(q)) = q

\* the article record of the list: content? is absent when hasContent is
\* FALSE, createdAt? is absent when createdAt is 0 (otherwise the day of the
\* ISO date)
ListArticle(id, title, hasContent, content, status, featured, shape, createdAt) ==
    [id |-> id, title |-> title, hasContent |-> hasContent, content |-> content,
     status |-> status, featured |-> featured,
     hasCategoryIds |-> shape.hasCategoryIds, categoryIds |-> shape.categoryIds,
     categoryId |-> shape.categoryId, networkId |-> shape.networkId, createdAt |-> createdAt]

\* the filter and sort state of a freshly mounted ArticlesPage
NoFilters ==
    [search |-> <<>>, statusFilter |-> "", selectedCats |-> {}, networkFilter |-> Null,
     featuredOnly |-> FALSE, sortCol |-> "createdAt", sortDir |-> "desc"]

filterArticles_featuredFromAll(list, f) ==
    LET q == toLowerCase(f.search)
        bySearch(a) == \/ includes(toLowerCase(a.title), q)
                       \/ a.hasContent /\ includes(toLowerCase(a.content), q)
        byStatus(a) == a.status = f.statusFilter
        byCats(a) == \E i \in DOMAIN filterCatIds(a) : filterCatIds(a)[i] \in f.selectedCats
        byNetwork(a) == a.networkId.t # "none" /\ Str(a.networkId) = f.networkFilter
        byFeatured(a) == a.featured
        l1 == IF f.search # <<>> THEN SelectSeq(list, bySearch) ELSE list
        l2 == IF f.statusFilter # "" THEN SelectSeq(l1, byStatus) ELSE l1
        l3 == IF f.selectedCats # {} THEN SelectSeq(l2, byCats) ELSE l2
        l4 == IF f.networkFilter # Null THEN SelectSeq(l3, byNetwork) ELSE l3
    IN  IF f.featuredOnly THEN SelectSeq(list, byFeatured) ELSE l4

\* the filter chain of `filtered`: each active filter narrows the list the
\* previous one left. String(null) is "null", which no network id equals.
filterArticles(list, f) ==
    LET q == toLowerCase(f.search)
        bySearch(a) == \/ includes(toLowerCase(a.title), q)
                       \/ a.hasContent /\ includes(toLowerCase(a.content), q)
        byStatus(a) == a.status = f.statusFilter
        byCats(a) == \E i \in DOMAIN filterCatIds(a) : filterCatIds(a)[i] \in f.selectedCats
        byNetwork(a) == a.networkId.t # "none" /\ Str(a.networkId) = f.networkFilter
        byFeatured(a) == a.featured
        l1 == IF f.search # <<>> THEN SelectSeq(list, bySearch) ELSE list
        l2 == IF f.statusFilter # "" THEN SelectSeq(l1, byStatus) ELSE l1
        l3 == IF f.selectedCats # {} THEN SelectSeq(l2, byCats) ELSE l2
        l4 == IF f.networkFilter # Null THEN SelectSeq(l3, byNetwork) ELSE l3
    IN  IF f.featuredOnly THEN SelectSeq(l4, byFeatured) ELSE l4

\* The collation key of a text: the ranks of its letters, then, after a
\* separator, the case of each letter (lower case first).
CollationKey(s) ==
    [i \in DOMAIN s |-> CASE toLowerCase(s)[i] = "a" -> 1 [] toLowerCase(s)[i] = "b" -> 2
                          [] OTHER -> 3]
    \o <<0>> \o [i \in DOMAIN s |-> IF s[i] = toLowerCase(s)[i] THEN 0 ELSE 1]

\* the key of the sort column, as the collation key of the string compared:
\* a.title, a.status, String(a.networkId ?? ''), a.createdAt ?? ''
sortKey(a, col) ==
    CASE col = "title" -> CollationKey(a.title)
      [] col = "status" -> CASE a.status = "archived" -> <<1>> [] a.status = "draft" -> <<2>>
                             [] OTHER -> <<3>>
      [] col = "networkId" -> IF a.networkId.t = "none" THEN <<>> ELSE <<a.networkId.v + 1>>
      [] OTHER -> IF a.createdAt = 0 THEN <<>> ELSE <<a.createdAt>>

\* av.localeCompare(bv) on collation keys: negative, zero or positive
localeCompare(av, bv) ==
    LET less(x, y) == \E i \in DOMAIN y :
                         /\ \A j \in 1..(i - 1) : j <= Len(x) /\ x[j] = y[j]
                         /\ (i > Len(x) \/ x[i] < y[i])
    IN  IF less(av, bv) THEN -1 ELSE IF less(bv, av) THEN 1 ELSE 0

RECURSIVE sortArticles_ignoreDir(_, _, _)
sortArticles_ignoreDir(list, col, dir) ==
    IF list = <<>> THEN <<>>
    ELSE LET n == Len(list)
             s == sortArticles_ignoreDir(SubSeq(list, 1, n - 1), col, dir)
             cmp(a, b) == localeCompare(sortKey(a, col), sortKey(b, col))
             k == Cardinality({i \in DOMAIN s : cmp(s[i], list[n]) <= 0})
         IN  SubSeq(s, 1, k) \o <<list[n]>> \o SubSeq(s, k + 1, Len(s))

\* [...list].sort(compare): the stable sort under
\* sortDir === 'asc' ? av.localeCompare(bv) : bv.localeCompare(av)
RECURSIVE sortArticles(_, _, _)
sortArticles(list, col, dir) ==
    IF list = <<>> THEN <<>>
    ELSE LET n == Len(list)
             s == sortArticles(SubSeq(list, 1, n - 1), col, dir)
             cmp(a, b) == IF dir = "asc" THEN localeCompare(sortKey(a, col), sortKey(b, col))
                          ELSE localeCompare(sortKey(b, col), sortKey(a, col))
             k == Cardinality({i \in DOMAIN s : cmp(s[i], list[n]) <= 0})
         IN  SubSeq(s, 1, k) \o <<list[n]>> \o SubSeq(s, k + 1, Len(s))

\* the articles the list is drawn from: list and legacy category shapes, ids
\* as numbers and as strings, equal and distinct sort keys
ListArticles ==
    << ListArticle(Num(1), <<"a", "b">>, TRUE, <<"c">>, "published", TRUE,
                   Article(TRUE, <<Num(1), Num(0)>>, Null, Num(1)), 3),
       ListArticle(Num(2), <<"B">>, FALSE, <<>>, "published", FALSE,
                   Article(TRUE, <<Str(Num(1))>>, Null, Str(Num(1))), 2),
       ListArticle(Num(3), <<"c">>, TRUE, <<"a", "B">>, "draft", TRUE,
                   Article(TRUE, <<>>, Num(1), Null), 1),
       ListArticle(Num(4), <<"a">>, TRUE, <<"b">>, "archived", FALSE,
                   Article(FALSE, <<>>, Num(0), Num(0)), 0),
       ListArticle(Num(5), <<"A">>, FALSE, <<>>, "draft", FALSE,
                   Article(FALSE, <<>>, Null, Null), 1) >>

\* the collections of up to MaxRows distinct articles, in every order
Collections(samples) ==
    {[i \in DOMAIN ix |-> samples[ix[i]]] :
        ix \in {s \in SeqUpTo(DOMAIN samples, MaxRows) : \A i, j \in DOMAIN s : s[i] = s[j] => i = j}}

\* the values each filter control is set to
FilterChoices ==
    [search |-> {<<>>, <<"a">>, <<"B">>},
     statusFilter |-> {"", "draft", "published"},
     selectedCats |-> SUBSET {Str(Num(0)), Str(Num(1))},
     networkFilter |-> {Null, Str(Num(1))},
     featuredOnly |-> BOOLEAN]

\* type SortCol
SortCols == {"title", "createdAt", "status", "networkId"}

\* the rows of one table page
PAGE_SIZE == 20

slice_inclusiveEnd(list, start, end) ==
    LET n == Len(list)
        from == IF start < n THEN start ELSE n
        to == IF end + 1 < n THEN end + 1 ELSE n
    IN  SubSeq(list, from + 1, to)

\* list.slice(start, end) for 0 <= start <= end: the elements at the
\* zero-based positions start .. end - 1, both clamped to the length
slice(list, start, end) ==
    LET n == Len(list)
        from == IF start < n THEN start ELSE n
        to == IF end < n THEN end ELSE n
    IN  SubSeq(list, from + 1, to)

\* a collection of two table pages, the last page holding one article;
\* the last two articles are published, the others are drafts
PagingArticles ==
    [i \in 1..(PAGE_SIZE + 1) |->
        ListArticle(Num(i), <<"a">>, FALSE, <<>>,
                    IF i >= PAGE_SIZE THEN "published" ELSE "draft", FALSE,
                    Article(FALSE, <<>>, Null, Null), 1)]

\* the query each page sends when it fetches ['articles','all']
ArticlesQuery(p) ==
    CASE p = "articles"      -> [status |-> "", limit |-> 100]
      [] p = "dashboard"     -> [status |-> "", limit |-> 1000]
      [] p = "notifications" -> [status |-> "published", limit |-> 500]
      [] OTHER               -> [status |-> "", limit |-> 2000]

\* GET /articles answered by the server: the articles of the requested
\* status, at most `limit` of them
getArticles(articles, query) ==
    LET matching == IF query.status = "" THEN articles
                    ELSE SelectSeq(articles, LAMBDA a : a.status = query.status)
    IN  SubSeq(matching, 1, IF Len(matching) < query.limit THEN Len(matching) ELSE query.limit)

\* ------------------------------------------------------------------------
\* DashboardPage: the statistics of the article collection
\* ------------------------------------------------------------------------
TopNetworks == 5    \* byNetwork keeps the five largest groups

\* the article record of the dashboard: a.network?.name is networkName,
\* Undefined when the article carries no network object or no name
DashArticle(id, status, featured, networkName, shape) ==
    [id |-> id, status |-> status, featured |-> featured, networkName |-> networkName,
     hasCategoryIds |-> shape.hasCategoryIds, categoryIds |-> shape.categoryIds,
     categoryId |-> shape.categoryId, networkId |-> shape.networkId]

countStatus_notPublished(articles, st) ==
    Len(SelectSeq(articles, LAMBDA a : IF st = "draft" THEN a.status # "published"
                                       ELSE a.status = st))

\* articles.filter(a => a.status === st).length
countStatus(articles, st) == Len(SelectSeq(articles, LAMBDA a : a.status = st))

\* a Map filled by map.set(key, (map.get(key) ?? 0) + 1) for each key in turn:
\* its entries in insertion order
RECURSIVE countKeys(_)
countKeys(keys) ==
    IF keys = <<>> THEN <<>>
    ELSE LET n == Len(keys)
             m == countKeys(SubSeq(keys, 1, n - 1))
         IN  IF \E i \in DOMAIN m : m[i].key = keys[n]
             THEN [i \in DOMAIN m |-> IF m[i].key = keys[n]
                                      THEN [m[i] EXCEPT !.value = @ + 1] ELSE m[i]]
             ELSE Append(m, [key |-> keys[n], value |-> 1])

\* entries.sort((a, b) => b.value - a.value): stable, largest first
RECURSIVE sortByValueDesc(_)
sortByValueDesc(entries) ==
    IF entries = <<>> THEN <<>>
    ELSE LET n == Len(entries)
             s == sortByValueDesc(SubSeq(entries, 1, n - 1))
             k == Cardinality({i \in DOMAIN s : s[i].value >= entries[n].value})
         IN  SubSeq(s, 1, k) \o <<entries[n]>> \o SubSeq(s, k + 1, Len(s))

\* a.network?.name ?? (a.networkId ? `Réseau #${a.networkId}` : null)
networkName(a) ==
    IF a.networkName # Undefined THEN a.networkName
    ELSE IF Truthy(a.networkId) THEN "Reseau #" \o ToString(a.networkId.v)
    ELSE Undefined

RECURSIVE categoryKeys_firstOnly(_)
categoryKeys_firstOnly(articles) ==
    IF articles = <<>> THEN <<>>
    ELSE LET ids == MapString(getArticleCategoryIds(articles[Len(articles)]))
         IN  categoryKeys_firstOnly(SubSeq(articles, 1, Len(articles) - 1))
             \o (IF ids = <<>> THEN <<>> ELSE <<ids[1]>>)

\* the keys the category counts are incremented under, article by article:
\* String(cid) for each cid of getArticleCategoryIds(a)
RECURSIVE categoryKeys(_)
categoryKeys(articles) ==
    IF articles = <<>> THEN <<>>
    ELSE categoryKeys(SubSeq(articles, 1, Len(articles) - 1))
         \o MapString(getArticleCategoryIds(articles[Len(articles)]))

\* the stats memo of DashboardPage
computeStats(articles, cats) ==
    LET named == SelectSeq(articles, LAMBDA a : networkName(a) \notin {Undefined, ""})
        networkMap == countKeys([i \in DOMAIN named |-> networkName(named[i])])
        sorted == sortByValueDesc(networkMap)
        catCountMap == countKeys(categoryKeys(articles))
        categoryById == buildCategoryMap(cats)
        pie == [i \in DOMAIN catCountMap |->
                   [key |-> catCountMap[i].key,
                    name |-> IF catCountMap[i].key \in DOMAIN categoryById
                             THEN categoryById[catCountMap[i].key].name
                             ELSE "Categorie #" \o ToString(catCountMap[i].key.v),
                    value |-> catCountMap[i].value]]
    IN  [done |-> TRUE,
         total |-> Len(articles),
         published |-> countStatus(articles, "published"),
         draft |-> countStatus(articles, "draft"),
         archived |-> countStatus(articles, "archived"),
         featured |-> Len(SelectSeq(articles, LAMBDA a : a.featured)),
         byNetwork |-> SubSeq(sorted, 1, IF Len(sorted) < TopNetworks THEN Len(sorted)
                                         ELSE TopNetworks),
         pieData |-> sortByValueDesc(SelectSeq(pie, LAMBDA d : d.value > 0))]

\* the articles the dashboard is drawn from: every status, featured or not,
\* with and without a network name and a network id, with list and legacy
\* category shapes
DashArticles ==
    {DashArticle(Num(0), st, ft, net[1], Article(sh[1], sh[2], sh[3], net[2])) :
        st \in Statuses, ft \in BOOLEAN,
        net \in {<<Undefined, Null>>, <<Undefined, Num(0)>>, <<Undefined, Num(1)>>,
                 <<"FR", Num(1)>>},
        sh \in {<<FALSE, <<>>, Null>>, <<FALSE, <<>>, Num(1)>>, <<TRUE, <<Num(1), Num(0)>>, Null>>,
                <<TRUE, <<Num(1), Num(1)>>, Null>>}}

\* the categories the dashboard resolves names from
DashCategories == <<Category(Num(1), "Politique")>>

\* ------------------------------------------------------------------------
\* services/api: the query parameter builder and the response normalizer
\* ------------------------------------------------------------------------
\* a JavaScript value of a query field: undefined, null, a number n, a
\* string s, a boolean (n = 1 for true)
Js(t, n, s) == [t |-> t, n |-> n, s |-> s]
JsUndefined == Js("undefined", 0, "")

\* x != null
NotNullish(x) == x.t \notin {"undefined", "null"}

\* if (x): undefined, null, 0, "" and false are falsy
ToBoolean(x) ==
    CASE x.t = "number" -> x.n # 0
      [] x.t = "string" -> x.s # ""
      [] x.t = "boolean" -> x.n = 1
      [] OTHER -> FALSE

\* String(x) of a number or a string; an array element that is null or
\* undefined joins as the empty string
StringOf(x) ==
    CASE x.t = "number" -> ToString(x.n)
      [] x.t = "string" -> x.s
      [] OTHER -> ""

\* ids.join(',')
RECURSIVE join(_)
join(ids) ==
    IF ids = <<>> THEN ""
    ELSE IF Len(ids) = 1 THEN StringOf(ids[1])
    ELSE join(SubSeq(ids, 1, Len(ids) - 1)) \o "," \o StringOf(ids[Len(ids)])

\* categoryIds?: hasCategoryIds = FALSE models an absent list
ArticleQueryParams ==
    [page : {JsUndefined, Js("number", 0, ""), Js("number", 1, "")},
     limit : {JsUndefined, Js("number", 20, "")},
     search : {JsUndefined, Js("string", 0, ""), Js("string", 0, "climat")},
     status : {JsUndefined, Js("string", 0, ""), Js("string", 0, "draft")},
     networkId : {JsUndefined, Js("null", 0, ""), Js("number", 0, ""), Js("number", 7, ""),
                  Js("string", 0, ""), Js("string", 0, "n1")},
     featured : {JsUndefined, Js("boolean", 0, ""), Js("boolean", 1, "")},
     sortBy : {JsUndefined, Js("string", 0, "title")},
     sortDir : {JsUndefined, Js("string", 0, "asc")},
     hasCategoryIds : BOOLEAN,
     categoryIds : {<<>>, <<Js("number", 3, "")>>,
                    <<Js("number", 1, ""), Js("number", 2, "")>>,
                    <<Js("number", 2, ""), Js("number", 1, "")>>,
                    <<Js("string", 0, "c1"), Js("number", 2, "")>>}]

buildArticleParams_truthyIds(params) ==
    LET emitted ==
            {k \in {"page", "limit", "networkId"} : ToBoolean(params[k])}
            \cup {k \in {"search", "status", "featured", "sortBy", "sortDir"} : ToBoolean(params[k])}
            \cup {k \in {"categoryIds"} : params.hasCategoryIds /\ Len(params.categoryIds) > 0}
    IN  [k \in emitted |->
            CASE k = "featured" -> "true"
              [] k = "categoryIds" -> join(params.categoryIds)
              [] OTHER -> StringOf(params[k])]

\* buildArticleParams: the keys emitted and the string each one carries
buildArticleParams(params) ==
    LET emitted ==
            {k \in {"page", "limit", "networkId"} : NotNullish(params[k])}
            \cup {k \in {"search", "status", "featured", "sortBy", "sortDir"} : ToBoolean(params[k])}
            \cup {k \in {"categoryIds"} : params.hasCategoryIds /\ Len(params.categoryIds) > 0}
    IN  [k \in emitted |->
            CASE k = "featured" -> "true"
              [] k = "categoryIds" -> join(params.categoryIds)
              [] OTHER -> StringOf(params[k])]

\* a JSON value: an array of items, an object of fields, or a scalar
Json(t, items, fields) == [t |-> t, items |-> items, fields |-> fields]

\* the keys toArray looks an array up under, in this order
EnvelopeKeys ==
    <<"data", "items", "results", "articles", "categories", "notifications", "networks">>

\* the response bodies: scalars, arrays, and the objects that carry under
\* each envelope key nothing, a number or an array (told apart by its item)
JsonValues ==
    {Json(t, <<>>, <<>>) : t \in {"undefined", "null", "number", "string", "boolean"}}
    \cup {Json("array", items, <<>>) : items \in {<<>>, <<"a">>, <<"a", "b">>}}
    \cup {Json("object", <<>>,
               [k \in {k \in Range(EnvelopeKeys) \cup {"total"} : g[k] # "absent"} |->
                   IF g[k] = "array" THEN Json("array", <<k>>, <<>>)
                   ELSE Json("number", <<>>, <<>>)]) :
             g \in [Range(EnvelopeKeys) \cup {"total"} -> {"absent", "number", "array"}]}

toArray_firstKeyDecides(data) ==
    LET present == {i \in DOMAIN EnvelopeKeys : EnvelopeKeys[i] \in DOMAIN data.fields}
        first == CHOOSE i \in present : \A j \in present : i <= j
    IN  IF data.t = "array" THEN [items |-> data.items, warned |-> FALSE]
        ELSE IF data.t = "object" /\ present # {} /\ data.fields[EnvelopeKeys[first]].t = "array"
             THEN [items |-> data.fields[EnvelopeKeys[first]].items, warned |-> FALSE]
        ELSE [items |-> <<>>, warned |-> TRUE]

\* toArray: the array itself, the first array found under an envelope key, or
\* [] with a console warning. (data && typeof data === 'object') holds for
\* objects only: null is falsy.
toArray(data) ==
    LET found == {i \in DOMAIN EnvelopeKeys :
                     /\ EnvelopeKeys[i] \in DOMAIN data.fields
                     /\ data.fields[EnvelopeKeys[i]].t = "array"}
        first == CHOOSE i \in found : \A j \in found : i <= j
    IN  IF data.t = "array" THEN [items |-> data.items, warned |-> FALSE]
        ELSE IF data.t = "object" /\ found # {}
             THEN [items |-> data.fields[EnvelopeKeys[first]].items, warned |-> FALSE]
        ELSE [items |-> <<>>, warned |-> TRUE]

\* ------------------------------------------------------------------------
\* NotificationsPage: the history order
\* ------------------------------------------------------------------------
\* sentAt?: string | null and createdAt?: string: undefined, null, or an ISO
\* time as the sequence of its digits
Time(t, digits) == [t |-> t, s |-> digits]
Notification(id, sentAt, createdAt) == [id |-> id, sentAt |-> sentAt, createdAt |-> createdAt]

\* the collation key of a time: its digits rank by their value
TimeKey(s) == [i \in DOMAIN s |->
                 CASE s[i] = "0" -> 0 [] s[i] = "1" -> 1 [] s[i] = "2" -> 2 [] OTHER -> 3]

orderingKey_createdFirst(n) ==
    IF NotNullish(n.createdAt) THEN n.createdAt.s
    ELSE IF NotNullish(n.sentAt) THEN n.sentAt.s
    ELSE <<>>

\* a.sentAt ?? a.createdAt ?? ''
orderingKey(n) ==
    IF NotNullish(n.sentAt) THEN n.sentAt.s
    ELSE IF NotNullish(n.createdAt) THEN n.createdAt.s
    ELSE <<>>

\* [...notifications].sort((a, b) => db.localeCompare(da)): the stable sort
RECURSIVE sortedNotifs(_)
sortedNotifs(notifications) ==
    IF notifications = <<>> THEN <<>>
    ELSE LET n == Len(notifications)
             s == sortedNotifs(SubSeq(notifications, 1, n - 1))
             cmp(a, b) == localeCompare(TimeKey(orderingKey(b)), TimeKey(orderingKey(a)))
             k == Cardinality({i \in DOMAIN s : cmp(s[i], notifications[n]) <= 0})
         IN  SubSeq(s, 1, k) \o <<notifications[n]>> \o SubSeq(s, k + 1, Len(s))

\* the times a notification carries
Times == {<<"1">>, <<"1", "0">>, <<"2">>}
SentAts == {Time("undefined", <<>>), Time("null", <<>>)} \cup {Time("string", d) : d \in Times}
CreatedAts == {Time("undefined", <<>>)} \cup {Time("string", d) : d \in Times}

\* the notification lists of up to MaxRows entries, the id being the position
NotificationLists ==
    UNION {{[i \in 1..k |-> Notification(Num(i), f[i][1], f[i][2])] :
              f \in [1..k -> SentAts \X CreatedAts]} : k \in 0..MaxRows}

\* ------------------------------------------------------------------------
\* State
\* ------------------------------------------------------------------------
VARIABLES
    page,           \* the mounted page
    form,           \* ArticleFormPage: mode, loaded article's status, values, isDirty, saveState
    snack,          \* the mounted page's snackbar
    confirmDelete,  \* the mounted page's confirm dialog target (Null: closed)
    selected,       \* ArticlesPage: bulk-selection set
    bulkStatus,     \* ArticlesPage: status chosen for the bulk action ("" : none)
    pending,        \* requests in flight
    invalidated,    \* cached query keys that are invalid (to be refetched)
    event,          \* what the last step settled (NoEvent when it settled nothing)
    cachedArticles, \* data cached under ['articles','all']
    article,        \* the article handed to the association rules
    categories,     \* the category collection the lookup table is built from
    rowCat,         \* resolveCategory's result for the table row
    derived,        \* per consumer, the category ids it derived for the article
    filters,        \* ArticlesPage: the filter and sort state of the list
    filtered,       \* ArticlesPage: the filtered and sorted list it shows
    stats,          \* DashboardPage: the statistics it shows
    call,           \* services/api: a helper call, its argument and its result
    server,         \* the API server: its article collection and the featured writes it applied
    pageIndex,      \* ArticlesPage: the zero-based page of the table (the state `page`)
    debounce,       \* ArticlesPage: searchInput, the timer handle and the browser's timers
    selectedArticleId   \* NotificationsPage: the id chosen in the send form (Null: the empty string)

pageVars == <<form, snack, confirmDelete, selected, bulkStatus>>
cacheVars == <<pending, invalidated, event, cachedArticles>>
resolveVars == <<article, categories, rowCat, derived>>
liveVars == <<server, debounce, selectedArticleId>>
viewVars == <<filters, filtered, stats, call, pageIndex, liveVars>>
vars == <<page, form, snack, confirmDelete, selected, bulkStatus, pending, invalidated, event,
          cachedArticles, article, categories, rowCat, derived, filters, filtered, stats, call,
          server, pageIndex, debounce, selectedArticleId>>

NotDerived == [done |-> FALSE, ids |-> {}]
Unresolved == [done |-> FALSE, cat |-> NoCategory]

NoForm == [mode |-> "none", status |-> "none", values |-> NoValues, isDirty |-> FALSE,
           saveState |-> "idle"]
NoSnack == [msg |-> "", sev |-> "none"]
Snack(m, s) == [msg |-> m, sev |-> s]

\* a request in flight: a mutation call or a query fetch
Req(mut, key, ids, n) == [mut |-> mut, key |-> key, ids |-> ids, failureCount |-> n]
QueryReq(key, n) == Req("query", key, {}, n)
MutReq(mut, ids) == Req(mut, <<>>, ids, 0)

\* what the last step did at the network boundary: nothing, a request sent
\* (with its payload), a mutation settled, a query fetch settled
NoRaw == [response |-> FALSE, status |-> NoStatus, bodyMessage |-> Undefined, message |-> ""]
NoEvent == [kind |-> "none", mut |-> "", ok |-> FALSE, raw |-> NoRaw, err |-> NoError, inv |-> {},
            vals |-> NoValues, ids |-> {}, applied |-> {}, failureCount |-> 0]
SentEvent(mut, vals, ids) ==
    [NoEvent EXCEPT !.kind = "sent", !.mut = mut, !.vals = vals, !.ids = ids]
SuccessEvent(r, inv) ==
    [NoEvent EXCEPT !.kind = "mutation", !.mut = r.mut, !.ok = TRUE, !.inv = inv,
                    !.ids = r.ids, !.applied = r.ids]
\* the rejection carries the error the response interceptor built from raw
FailureEvent(r, raw, inv, applied) ==
    [NoEvent EXCEPT !.kind = "mutation", !.mut = r.mut, !.raw = raw, !.err = interceptor(raw),
                    !.inv = inv, !.ids = r.ids, !.applied = applied]
QuerySuccessEvent(r) ==
    [NoEvent EXCEPT !.kind = "query", !.mut = "query", !.ok = TRUE, !.failureCount = r.failureCount]
QueryFailureEvent(r, raw) ==
    [NoEvent EXCEPT !.kind = "query", !.mut = "query", !.raw = raw, !.err = interceptor(raw),
                    !.failureCount = r.failureCount]

IsPending(mut) == \E r \in pending : r.mut = mut
CanSend == Cardinality(pending) < MaxPending

\* the full article record of a cached collection
CachedArticle(id, status, featured, shape) ==
    [id |-> id, status |-> status, featured |-> featured,
     hasCategoryIds |-> shape.hasCategoryIds, categoryIds |-> shape.categoryIds,
     categoryId |-> shape.categoryId, networkId |-> shape.networkId]

\* the collection the pages start from
SampleArticles ==
    << CachedArticle(Num(0), "draft", FALSE, Article(TRUE, <<Num(1)>>, Null, Num(1))),
       CachedArticle(Num(1), "published", TRUE, Article(TRUE, <<>>, Num(1), Null)) >>

ResolveIdle ==
    /\ article = Article(FALSE, <<>>, Null, Null)
    /\ categories = <<>>
    /\ rowCat = Unresolved
    /\ derived = [c \in Consumers |-> NotDerived]

\* no statistics computed, no helper called
NoStats ==
    [done |-> FALSE, total |-> 0, published |-> 0, draft |-> 0, archived |-> 0, featured |-> 0,
     byNetwork |-> <<>>, pieData |-> <<>>]
NoCall == [fn |-> "none", done |-> FALSE, arg |-> <<>>, out |-> <<>>]

\* no server is attached, the search box is empty with no timer armed, no
\* article is chosen for a notification
NoServer == [articles |-> <<>>, featuredWrites |-> <<>>]
NoDebounce == [searchInput |-> <<>>, searchTimer |-> 0, timers |-> {}, heldMs |-> 0]
LiveIdle ==
    /\ server = NoServer
    /\ pageIndex = 0
    /\ debounce = NoDebounce
    /\ selectedArticleId = Null

\* the list view, the statistics and the helpers are not in use
ViewsIdle ==
    /\ filters = NoFilters
    /\ filtered = <<>>
    /\ stats = NoStats
    /\ call = NoCall
    /\ LiveIdle

\* the form a freshly mounted ArticleFormPage shows: the empty create form,
\* or the edit form populated from the loaded article
InitialForms(loaded) ==
    {[mode |-> "create", status |-> "none", values |-> defaultValues, isDirty |-> FALSE,
      saveState |-> "idle"]}
    \cup {[mode |-> "edit", status |-> st, values |-> v, isDirty |-> FALSE, saveState |-> "idle"] :
             st \in Statuses, v \in loaded}

\* page p is freshly mounted, nothing is in flight
Mounted(p) ==
    /\ page = p
    /\ form \in (IF p = "form" THEN InitialForms({ValidValues}) ELSE {NoForm})
    /\ snack = NoSnack
    /\ confirmDelete = Null
    /\ selected = {}
    /\ bulkStatus = ""
    /\ pending = {}
    /\ event = NoEvent

PagesIdle == Mounted("dashboard")

\* ------------------------------------------------------------------------
\* Navigation and queries
\* ------------------------------------------------------------------------
\* The router mounts page p; the page's local state starts from its initial
\* values.  The edit form is populated from the loaded article.
Navigate(p, loaded) ==
    /\ \A r \in pending : r.mut = "query"
    /\ page' = p
    /\ \/ /\ p = "form"
          /\ form' \in InitialForms(loaded)
       \/ /\ p # "form"
          /\ p # page
          /\ form' = NoForm
    /\ snack' = NoSnack
    /\ confirmDelete' = Null
    /\ selected' = {}
    /\ bulkStatus' = ""
    /\ event' = NoEvent
    /\ UNCHANGED <<pending, invalidated, cachedArticles, resolveVars, viewVars>>

\* An observed query that is invalid (or was never fetched) is fetched.
FetchQuery(k) ==
    /\ k \in ActiveKeys(page)
    /\ k \in invalidated
    /\ ~\E r \in pending : r.mut = "query" /\ r.key = k
    /\ CanSend
    /\ pending' = pending \cup {QueryReq(k, 0)}
    /\ event' = NoEvent
    /\ UNCHANGED <<page, pageVars, invalidated, cachedArticles, resolveVars, viewVars>>

\* The fetch succeeds: the entry is fresh again.  A refetched article
\* repopulates the edit form (reset).
QuerySuccess(r, loaded) ==
    /\ r \in pending /\ r.mut = "query"
    /\ pending' = pending \ {r}
    /\ invalidated' = invalidated \ {r.key}
    /\ event' = QuerySuccessEvent(r)
    /\ IF r.key = KeyArticle /\ page = "form" /\ form.mode = "edit"
       THEN \E st \in Statuses, v \in loaded :
               form' = [form EXCEPT !.status = st, !.values = v, !.isDirty = FALSE]
       ELSE form' = form
    /\ UNCHANGED <<page, snack, confirmDelete, selected, bulkStatus, cachedArticles, resolveVars, viewVars>>

\* The fetch fails: it is retried while failureCount < retry, then the query
\* is in error.
QueryFailure(r, raw) ==
    /\ r \in pending /\ r.mut = "query"
    /\ IF shouldRetry(r.failureCount)
       THEN pending' = (pending \ {r}) \cup {QueryReq(r.key, r.failureCount + 1)}
       ELSE pending' = pending \ {r}
    /\ event' = QueryFailureEvent(r, raw)
    /\ UNCHANGED <<page, pageVars, invalidated, cachedArticles, resolveVars, viewVars>>

\* invalidation marks the keys; a fetch in flight for one of them restarts
Invalidate(keys, rest) ==
    /\ invalidated' = invalidated \cup keys
    /\ pending' = {IF r.mut = "query" /\ r.key \in keys THEN QueryReq(r.key, 0) ELSE r : r \in rest}

\* ------------------------------------------------------------------------
\* ArticleFormPage
\* ------------------------------------------------------------------------
isEdit == form.mode = "edit"

\* buildPayload(values): title, content, categoryIds and networkId go through
\* unchanged (the category objects are mapped to their ids)
buildPayload(values) == values

\* The user edits one field.  The isDirty effect marks the draft unsaved
\* when isDirty becomes true on an edit form.
EditField(f, v) ==
    /\ page = "form" /\ form.mode # "none"
    /\ form.values[f] # v
    /\ form' = [form EXCEPT !.values = [form.values EXCEPT ![f] = v],
                            !.isDirty = TRUE,
                            !.saveState = IF ~form.isDirty /\ isEdit THEN "unsaved" ELSE @]
    /\ event' = NoEvent
    /\ UNCHANGED <<page, snack, confirmDelete, selected, bulkStatus, pending, invalidated,
                   cachedArticles, resolveVars, viewVars>>

\* handleSubmit(onSubmit): the resolver validates the values against the
\* schema; onSubmit runs only when they pass.
onSubmit ==
    /\ page = "form" /\ form.mode # "none"
    /\ ~IsPending("form.createMut") /\ ~IsPending("form.updateMut")     \* disabled={isSaving}
    /\ schema(form.values)
    /\ CanSend
    /\ pending' = pending \cup
          {MutReq(IF isEdit THEN "form.updateMut" ELSE "form.createMut", {})}
    /\ event' = SentEvent(IF isEdit THEN "form.updateMut" ELSE "form.createMut",
                          buildPayload(form.values), {})
    /\ UNCHANGED <<page, pageVars, invalidated, cachedArticles, resolveVars, viewVars>>

\* The 30 s interval fires doAutoSave: draft articles in edit mode only;
\* the payload is built from the watched form values and sent.
doAutoSave ==
    /\ page = "form"
    /\ isEdit
    /\ form.status = "draft"
    /\ CanSend
    /\ form' = [form EXCEPT !.saveState = "saving"]
    /\ pending' = pending \cup {MutReq("form.autoSave", {})}
    /\ event' = SentEvent("form.autoSave", buildPayload(form.values), {})
    /\ UNCHANGED <<page, snack, confirmDelete, selected, bulkStatus, invalidated, cachedArticles,
                   resolveVars, viewVars>>

\* Publier (draft) / Archiver (published)
FormStatusClick ==
    /\ page = "form" /\ isEdit
    /\ form.status \in {"draft", "published"}
    /\ ~IsPending("form.statusMut")
    /\ CanSend
    /\ pending' = pending \cup {MutReq("form.statusMut", {})}
    /\ event' = SentEvent("form.statusMut", NoValues, {})
    /\ UNCHANGED <<page, pageVars, invalidated, cachedArticles, resolveVars, viewVars>>

\* Notifier (published)
FormNotifyClick ==
    /\ page = "form" /\ isEdit
    /\ form.status = "published"
    /\ ~IsPending("form.notifyMut")
    /\ CanSend
    /\ pending' = pending \cup {MutReq("form.notifyMut", {})}
    /\ event' = SentEvent("form.notifyMut", NoValues, {})
    /\ UNCHANGED <<page, pageVars, invalidated, cachedArticles, resolveVars, viewVars>>

FormSuccessSnack(mut) ==
    CASE mut = "form.createMut" -> Snack("Article cree", "success")
      [] mut = "form.updateMut" -> Snack("Article sauvegarde", "success")
      [] mut = "form.statusMut" -> Snack("Statut mis a jour", "success")
      [] mut = "form.notifyMut" -> Snack("Notification envoyee", "success")
      [] OTHER                  -> snack

\* The request of a form mutation succeeds: onSuccess (or the promise's then).
FormMutationSuccess(r) ==
    /\ r \in pending /\ r.mut \in FormMutations
    /\ Invalidate(OnSuccessKeys(r.mut), pending \ {r})
    /\ event' = SuccessEvent(r, OnSuccessKeys(r.mut))
    /\ snack' = FormSuccessSnack(r.mut)
    /\ form' = CASE r.mut = "form.createMut" ->     \* navigate to the created article's edit form
                        [form EXCEPT !.mode = "edit", !.status = "draft"]
                 [] r.mut \in {"form.updateMut", "form.autoSave"} ->
                        [form EXCEPT !.saveState = "saved"]
                 [] OTHER -> form
    /\ UNCHANGED <<page, confirmDelete, selected, bulkStatus, cachedArticles, resolveVars, viewVars>>

\* what a failure path invalidates: no onError handler and no catch block
\* calls invalidateQueries
OnErrorKeys_articles(mut) == invalidateQueries(<<"articles">>)

OnErrorKeys(mut) == {}

\* The request of a form mutation fails: onError (or the promise's catch).
FormMutationFailure(r, raw) ==
    /\ r \in pending /\ r.mut \in FormMutations
    /\ Invalidate(OnErrorKeys(r.mut), pending \ {r})
    /\ event' = FailureEvent(r, raw, OnErrorKeys(r.mut), {})
    /\ snack' = IF r.mut = "form.autoSave" THEN snack ELSE Snack(interceptor(raw).msg, "error")
    /\ form' = IF r.mut \in {"form.updateMut", "form.autoSave"}
               THEN [form EXCEPT !.saveState = "unsaved"] ELSE form
    /\ UNCHANGED <<page, confirmDelete, selected, bulkStatus, cachedArticles, resolveVars, viewVars>>

\* ------------------------------------------------------------------------
\* ArticlesPage
\* ------------------------------------------------------------------------
Rows == Range(cachedArticles)

\* the row's delete button opens the confirm dialog
RequestDeleteArticle(a) ==
    /\ page = "articles" /\ a \in Rows
    /\ confirmDelete' = Str(a.id)
    /\ event' = NoEvent
    /\ UNCHANGED <<page, form, snack, selected, bulkStatus, pending, invalidated, cachedArticles,
                   resolveVars, viewVars>>

\* ConfirmDialog onClose (any page with a confirm dialog)
CloseConfirm ==
    /\ confirmDelete # Null
    /\ confirmDelete' = Null
    /\ event' = NoEvent
    /\ UNCHANGED <<page, form, snack, selected, bulkStatus, pending, invalidated, cachedArticles,
                   resolveVars, viewVars>>

\* ConfirmDialog onConfirm: deleteMut.mutate(confirmDelete, { onSettled })
ConfirmDeleteArticle ==
    /\ page = "articles" /\ confirmDelete # Null
    /\ ~IsPending("list.deleteMut")                 \* disabled={loading}
    /\ CanSend
    /\ pending' = pending \cup {MutReq("list.deleteMut", {confirmDelete})}
    /\ event' = SentEvent("list.deleteMut", NoValues, {confirmDelete})
    /\ UNCHANGED <<page, pageVars, invalidated, cachedArticles, resolveVars, viewVars>>

\* Publier on a draft row, Archiver on a published row
ListStatusClick(a) ==
    /\ page = "articles" /\ a \in Rows
    /\ a.status \in {"draft", "published"}
    /\ CanSend
    /\ pending' = pending \cup {MutReq("list.statusMut", {Str(a.id)})}
    /\ event' = SentEvent("list.statusMut", NoValues, {Str(a.id)})
    /\ UNCHANGED <<page, pageVars, invalidated, cachedArticles, resolveVars, viewVars>>

\* the featured toggle: updateArticle(id, { featured: !article.featured })
FeaturedToggle(a) ==
    /\ page = "articles" /\ a \in Rows
    /\ CanSend
    /\ pending' = pending \cup {MutReq("list.featuredMut", {Str(a.id)})}
    /\ event' = SentEvent("list.featuredMut", NoValues, {Str(a.id)})
    /\ UNCHANGED <<page, pageVars, invalidated, cachedArticles, resolveVars, viewVars>>

toggleOne(id) ==
    /\ page = "articles" /\ id \in {Str(a.id) : a \in Rows}
    /\ selected' = IF id \in selected THEN selected \ {id} ELSE selected \cup {id}
    /\ event' = NoEvent
    /\ UNCHANGED <<page, form, snack, confirmDelete, bulkStatus, pending, invalidated,
                   cachedArticles, resolveVars, viewVars>>

\* the bulk toolbar's status select
SetBulkStatus(st) ==
    /\ page = "articles" /\ selected # {}
    /\ bulkStatus # st
    /\ bulkStatus' = st
    /\ event' = NoEvent
    /\ UNCHANGED <<page, form, snack, confirmDelete, selected, pending, invalidated,
                   cachedArticles, resolveVars, viewVars>>

\* applyBulkStatus up to the await: one status request per selected id, in parallel
applyBulkStatus ==
    /\ page = "articles"
    /\ bulkStatus # "" /\ selected # {}
    /\ ~IsPending("list.bulkStatus")                \* disabled={!bulkStatus || bulkLoading}
    /\ CanSend
    /\ pending' = pending \cup {MutReq("list.bulkStatus", selected)}
    /\ event' = SentEvent("list.bulkStatus", NoValues, selected)
    /\ UNCHANGED <<page, pageVars, invalidated, cachedArticles, resolveVars, viewVars>>

\* applyBulkStatus after the await, every request fulfilled
BulkStatusSuccess(r) ==
    /\ r \in pending /\ r.mut = "list.bulkStatus"
    /\ Invalidate(OnSuccessKeys(r.mut), pending \ {r})
    /\ event' = SuccessEvent(r, OnSuccessKeys(r.mut))
    /\ selected' = {}
    /\ bulkStatus' = ""
    /\ snack' = Snack(ToString(Cardinality(r.ids)) \o " articles mis a jour", "success")
    /\ UNCHANGED <<page, form, confirmDelete, cachedArticles, resolveVars, viewVars>>

\* applyBulkStatus after the await, Promise.all rejected: the server applied
\* the requests of `applied`, at least one other request failed
BulkStatusFailure(r, applied, raw) ==
    /\ r \in pending /\ r.mut = "list.bulkStatus"
    /\ applied \subseteq r.ids /\ applied # r.ids
    /\ Invalidate(OnErrorKeys(r.mut), pending \ {r})
    /\ event' = FailureEvent(r, raw, OnErrorKeys(r.mut), applied)
    /\ snack' = Snack(interceptor(raw).msg, "error")
    /\ UNCHANGED <<page, form, confirmDelete, selected, bulkStatus, cachedArticles, resolveVars, viewVars>>

ListSingle == ListMutations \ {"list.bulkStatus"}

ListMutationSuccess(r) ==
    /\ r \in pending /\ r.mut \in ListSingle
    /\ Invalidate(OnSuccessKeys(r.mut), pending \ {r})
    /\ event' = SuccessEvent(r, OnSuccessKeys(r.mut))
    /\ snack' = CASE r.mut = "list.deleteMut" -> Snack("Article supprime", "success")
                  [] r.mut = "list.statusMut" -> Snack("Statut mis a jour", "success")
                  [] r.mut = "list.notifyMut" -> Snack("Notification envoyee", "success")
                  [] OTHER                    -> snack
    /\ confirmDelete' = IF r.mut = "list.deleteMut" THEN Null ELSE confirmDelete   \* onSettled
    /\ UNCHANGED <<page, form, selected, bulkStatus, cachedArticles, resolveVars, viewVars>>

ListMutationFailure(r, raw) ==
    /\ r \in pending /\ r.mut \in ListSingle
    /\ Invalidate(OnErrorKeys(r.mut), pending \ {r})
    /\ event' = FailureEvent(r, raw, OnErrorKeys(r.mut), {})
    /\ snack' = Snack(interceptor(raw).msg, "error")
    /\ confirmDelete' = IF r.mut = "list.deleteMut" THEN Null ELSE confirmDelete   \* onSettled
    /\ UNCHANGED <<page, form, selected, bulkStatus, cachedArticles, resolveVars, viewVars>>

\* ------------------------------------------------------------------------
\* CategoriesPage
\* ------------------------------------------------------------------------
\* number of increments of key k over the cached articles
articleCountByCategory(articles, k) ==
    Cardinality({ij \in (DOMAIN articles) \X (1..MaxCats) :
                    /\ ij[2] \in DOMAIN countCatIds(articles[ij[1]])
                    /\ countCatIds(articles[ij[1]])[ij[2]] = k})

\* the dialog form, validated, is submitted: createMut for a new category,
\* updateMut for the edit target
CategorySubmit(mut) ==
    /\ page = "categories" /\ mut \in {"cat.createMut", "cat.updateMut"}
    /\ ~IsPending("cat.createMut") /\ ~IsPending("cat.updateMut")       \* disabled={isSaving}
    /\ CanSend
    /\ pending' = pending \cup {MutReq(mut, {})}
    /\ event' = SentEvent(mut, NoValues, {})
    /\ UNCHANGED <<page, pageVars, invalidated, cachedArticles, resolveVars, viewVars>>

\* the card's delete button (disabled when the category counts articles)
\* calls handleDeleteRequest
CategoryDeleteRequest(cat) ==
    /\ page = "categories"
    /\ articleCountByCategory(cachedArticles, Str(cat)) = 0             \* disabled={articleCount > 0}
    /\ LET count == articleCountByCategory(cachedArticles, Str(cat))
       IN  IF count > 0
           THEN /\ snack' = Snack("Impossible: " \o ToString(count)
                                  \o " article(s) utilisent cette categorie", "warning")
                /\ confirmDelete' = confirmDelete
           ELSE /\ confirmDelete' = cat
                /\ snack' = snack
    /\ event' = NoEvent
    /\ UNCHANGED <<page, form, selected, bulkStatus, pending, invalidated, cachedArticles,
                   resolveVars, viewVars>>

\* ConfirmDialog onConfirm: confirmDelete && deleteMut.mutate(confirmDelete.id)
ConfirmDeleteCategory ==
    /\ page = "categories" /\ confirmDelete # Null
    /\ ~IsPending("cat.deleteMut")
    /\ CanSend
    /\ pending' = pending \cup {MutReq("cat.deleteMut", {confirmDelete})}
    /\ event' = SentEvent("cat.deleteMut", NoValues, {confirmDelete})
    /\ UNCHANGED <<page, pageVars, invalidated, cachedArticles, resolveVars, viewVars>>

CategoryMutationSuccess(r) ==
    /\ r \in pending /\ r.mut \in CategoryMutations
    /\ Invalidate(OnSuccessKeys(r.mut), pending \ {r})
    /\ event' = SuccessEvent(r, OnSuccessKeys(r.mut))
    /\ snack' = CASE r.mut = "cat.createMut" -> Snack("Categorie creee", "success")
                  [] r.mut = "cat.updateMut" -> Snack("Categorie modifiee", "success")
                  [] OTHER                   -> Snack("Categorie supprimee", "success")
    /\ confirmDelete' = IF r.mut = "cat.deleteMut" THEN Null ELSE confirmDelete
    /\ UNCHANGED <<page, form, selected, bulkStatus, cachedArticles, resolveVars, viewVars>>

\* deleteMut onError: the confirm dialog closes; status 409 shows the
\* 'still in use' warning, any other error shows e.message
CategoryDeleteErrorSnack(e) ==
    IF e.status = Conflict THEN Snack(CategoryInUseMsg, "warning") ELSE Snack(e.msg, "error")

CategoryMutationFailure(r, raw) ==
    /\ r \in pending /\ r.mut \in CategoryMutations
    /\ Invalidate(OnErrorKeys(r.mut), pending \ {r})
    /\ event' = FailureEvent(r, raw, OnErrorKeys(r.mut), {})
    /\ snack' = IF r.mut = "cat.deleteMut" THEN CategoryDeleteErrorSnack(interceptor(raw))
                ELSE Snack(interceptor(raw).msg, "error")
    /\ confirmDelete' = IF r.mut = "cat.deleteMut" THEN Null ELSE confirmDelete
    /\ UNCHANGED <<page, form, selected, bulkStatus, cachedArticles, resolveVars, viewVars>>

\* ------------------------------------------------------------------------
\* NetworksPage
\* ------------------------------------------------------------------------
articleCountByNetwork(articles, k) ==
    Cardinality({i \in DOMAIN articles :
                    articles[i].networkId.t # "none" /\ Str(articles[i].networkId) = k})

NetworkSubmit(mut) ==
    /\ page = "networks" /\ mut \in {"net.createMut", "net.updateMut"}
    /\ ~IsPending("net.createMut") /\ ~IsPending("net.updateMut")       \* disabled={isSaving}
    /\ CanSend
    /\ pending' = pending \cup {MutReq(mut, {})}
    /\ event' = SentEvent(mut, NoValues, {})
    /\ UNCHANGED <<page, pageVars, invalidated, cachedArticles, resolveVars, viewVars>>

NetworkDeleteRequest(net) ==
    /\ page = "networks"
    /\ articleCountByNetwork(cachedArticles, Str(net)) = 0              \* disabled={articleCount > 0}
    /\ LET count == articleCountByNetwork(cachedArticles, Str(net))
       IN  IF count > 0
           THEN /\ snack' = Snack("Impossible: " \o ToString(count)
                                  \o " article(s) utilisent ce reseau", "warning")
                /\ confirmDelete' = confirmDelete
           ELSE /\ confirmDelete' = net
                /\ snack' = snack
    /\ event' = NoEvent
    /\ UNCHANGED <<page, form, selected, bulkStatus, pending, invalidated, cachedArticles,
                   resolveVars, viewVars>>

ConfirmDeleteNetwork ==
    /\ page = "networks" /\ confirmDelete # Null
    /\ ~IsPending("net.deleteMut")
    /\ CanSend
    /\ pending' = pending \cup {MutReq("net.deleteMut", {confirmDelete})}
    /\ event' = SentEvent("net.deleteMut", NoValues, {confirmDelete})
    /\ UNCHANGED <<page, pageVars, invalidated, cachedArticles, resolveVars, viewVars>>

NetworkMutationSuccess(r) ==
    /\ r \in pending /\ r.mut \in NetworkMutations
    /\ Invalidate(OnSuccessKeys(r.mut), pending \ {r})
    /\ event' = SuccessEvent(r, OnSuccessKeys(r.mut))
    /\ snack' = CASE r.mut = "net.createMut" -> Snack("Reseau cree", "success")
                  [] r.mut = "net.updateMut" -> Snack("Reseau modifie", "success")
                  [] OTHER                   -> Snack("Reseau supprime", "success")
    /\ confirmDelete' = IF r.mut = "net.deleteMut" THEN Null ELSE confirmDelete
    /\ UNCHANGED <<page, form, selected, bulkStatus, cachedArticles, resolveVars, viewVars>>

NetworkDeleteErrorSnack(e) ==
    IF e.status = Conflict THEN Snack(NetworkInUseMsg, "warning") ELSE Snack(e.msg, "error")

NetworkMutationFailure(r, raw) ==
    /\ r \in pending /\ r.mut \in NetworkMutations
    /\ Invalidate(OnErrorKeys(r.mut), pending \ {r})
    /\ event' = FailureEvent(r, raw, OnErrorKeys(r.mut), {})
    /\ snack' = IF r.mut = "net.deleteMut" THEN NetworkDeleteErrorSnack(interceptor(raw))
                ELSE Snack(interceptor(raw).msg, "error")
    /\ confirmDelete' = IF r.mut = "net.deleteMut" THEN Null ELSE confirmDelete
    /\ UNCHANGED <<page, form, selected, bulkStatus, cachedArticles, resolveVars, viewVars>>

\* ------------------------------------------------------------------------
\* NotificationsPage
\* ------------------------------------------------------------------------
\* Envoyer: sendMut.mutate() (the button is disabled while sendMut is pending)
SendNotification ==
    /\ page = "notifications"
    /\ ~IsPending("notif.sendMut")
    /\ CanSend
    /\ pending' = pending \cup {MutReq("notif.sendMut", {})}
    /\ event' = SentEvent("notif.sendMut", NoValues, {})
    /\ UNCHANGED <<page, pageVars, invalidated, cachedArticles, resolveVars, viewVars>>

NotificationMutationSuccess(r) ==
    /\ r \in pending /\ r.mut \in NotificationMutations
    /\ Invalidate(OnSuccessKeys(r.mut), pending \ {r})
    /\ event' = SuccessEvent(r, OnSuccessKeys(r.mut))
    /\ snack' = Snack("Notification envoyee avec succes", "success")
    /\ UNCHANGED <<page, form, confirmDelete, selected, bulkStatus, cachedArticles, resolveVars, viewVars>>

NotificationMutationFailure(r, raw) ==
    /\ r \in pending /\ r.mut \in NotificationMutations
    /\ Invalidate(OnErrorKeys(r.mut), pending \ {r})
    /\ event' = FailureEvent(r, raw, OnErrorKeys(r.mut), {})
    /\ snack' = Snack(interceptor(raw).msg, "error")
    /\ UNCHANGED <<page, form, confirmDelete, selected, bulkStatus, cachedArticles, resolveVars, viewVars>>

\* ------------------------------------------------------------------------
\* SpecResolve: the table row's category over every article shape and every
\* lookup table
\* ------------------------------------------------------------------------
InitResolve ==
    /\ article \in CategoryShapes
    /\ categories \in Tables
    /\ rowCat = Unresolved
    /\ derived = [c \in Consumers |-> NotDerived]
    /\ PagesIdle
    /\ invalidated = {}
    /\ cachedArticles = <<>>
    /\ ViewsIdle

\* ArticlesPage renders the article's row.
RenderRow ==
    /\ ~derived["row"].done
    /\ rowCat' = [done |-> TRUE, cat |-> resolveCategory(article, buildCategoryMap(categories))]
    /\ derived' = [derived EXCEPT !["row"] = [done |-> TRUE, ids |-> Range(allCatIds(article))]]
    /\ UNCHANGED <<article, categories, page, pageVars, cacheVars, viewVars>>

\* ArticlesPage applies the category filter to the article.
FilterRow ==
    /\ ~derived["filter"].done
    /\ derived' = [derived EXCEPT !["filter"] = [done |-> TRUE, ids |-> Range(filterCatIds(article))]]
    /\ UNCHANGED <<article, categories, rowCat, page, pageVars, cacheVars, viewVars>>

\* DashboardPage counts the article in the category distribution.
DashboardCount ==
    /\ ~derived["dashboard"].done
    /\ derived' = [derived EXCEPT !["dashboard"] =
                      [done |-> TRUE, ids |-> Range(MapString(getArticleCategoryIds(article)))]]
    /\ UNCHANGED <<article, categories, rowCat, page, pageVars, cacheVars, viewVars>>

\* CategoriesPage counts the article per category.
CategoryCount ==
    /\ ~derived["count"].done
    /\ derived' = [derived EXCEPT !["count"] = [done |-> TRUE, ids |-> Range(countCatIds(article))]]
    /\ UNCHANGED <<article, categories, rowCat, page, pageVars, cacheVars, viewVars>>

NextResolve == RenderRow

SpecResolve == InitResolve /\ [][NextResolve]_vars

\* ------------------------------------------------------------------------
\* SpecConsumers: the category ids each consumer derives, over every article
\* shape
\* ------------------------------------------------------------------------
InitConsumers ==
    /\ article \in CategoryShapes
    /\ categories = <<>>
    /\ rowCat = Unresolved
    /\ derived = [c \in Consumers |-> NotDerived]
    /\ PagesIdle
    /\ invalidated = {}
    /\ cachedArticles = <<>>
    /\ ViewsIdle

NextConsumers == RenderRow \/ FilterRow \/ DashboardCount \/ CategoryCount

SpecConsumers == InitConsumers /\ [][NextConsumers]_vars

\* one error without a response, one conflict, one server error
SomeErrors == {e \in RawErrors : e.bodyMessage \in {Undefined, "Conflict"} /\ e.message # ""}

\* the empty form's values and a valid article's values
CoarseValues == {defaultValues, ValidValues}

\* ------------------------------------------------------------------------
\* Spec: every page with its mutations, from the page freshly mounted over
\* a fresh cache
\* ------------------------------------------------------------------------
Init ==
    /\ \E p \in Pages : Mounted(p)
    /\ invalidated = {}
    /\ cachedArticles = SampleArticles
    /\ ResolveIdle
    /\ ViewsIdle

\* a field is edited to the value it has in one of `values`
FormActions(values, errors) ==
    \/ \E f \in DOMAIN defaultValues, vals \in values : EditField(f, vals[f])
    \/ onSubmit
    \/ doAutoSave
    \/ FormStatusClick
    \/ FormNotifyClick
    \/ \E r \in pending : FormMutationSuccess(r)
    \/ \E r \in pending, raw \in errors : FormMutationFailure(r, raw)

ListActions(errors) ==
    \/ \E a \in Rows : RequestDeleteArticle(a)
    \/ ConfirmDeleteArticle
    \/ \E a \in Rows : ListStatusClick(a)
    \/ \E a \in Rows : FeaturedToggle(a)
    \/ \E a \in Rows : toggleOne(Str(a.id))
    \/ \E st \in Statuses \cup {""} : SetBulkStatus(st)
    \/ applyBulkStatus
    \/ \E r \in pending : BulkStatusSuccess(r)
    \/ \E r \in pending, raw \in errors : \E applied \in SUBSET r.ids :
          BulkStatusFailure(r, applied, raw)
    \/ \E r \in pending : ListMutationSuccess(r)
    \/ \E r \in pending, raw \in errors : ListMutationFailure(r, raw)

CategoryActions(errors) ==
    \/ \E mut \in {"cat.createMut", "cat.updateMut"} : CategorySubmit(mut)
    \/ \E cat \in IdVals : CategoryDeleteRequest(cat)
    \/ ConfirmDeleteCategory
    \/ \E r \in pending : CategoryMutationSuccess(r)
    \/ \E r \in pending, raw \in errors : CategoryMutationFailure(r, raw)

NetworkActions(errors) ==
    \/ \E mut \in {"net.createMut", "net.updateMut"} : NetworkSubmit(mut)
    \/ \E net \in IdVals : NetworkDeleteRequest(net)
    \/ ConfirmDeleteNetwork
    \/ \E r \in pending : NetworkMutationSuccess(r)
    \/ \E r \in pending, raw \in errors : NetworkMutationFailure(r, raw)

NotificationActions(errors) ==
    \/ SendNotification
    \/ \E r \in pending : NotificationMutationSuccess(r)
    \/ \E r \in pending, raw \in errors : NotificationMutationFailure(r, raw)

QueryActions(errors, loaded) ==
    \/ \E k \in QueryKeys : FetchQuery(k)
    \/ \E r \in pending : QuerySuccess(r, loaded)
    \/ \E r \in pending, raw \in errors : QueryFailure(r, raw)

Next ==
    \/ CloseConfirm
    \/ FormActions(CoarseValues, SomeErrors)
    \/ ListActions(SomeErrors)
    \/ CategoryActions(SomeErrors)
    \/ NetworkActions(SomeErrors)
    \/ NotificationActions(SomeErrors)

Spec == Init /\ [][Next]_vars

\* ------------------------------------------------------------------------
\* SpecQueries: the query cache with its fetches and retries under every
\* page, with the mutations of the categories and notifications pages
\* ------------------------------------------------------------------------
InitQueries ==
    /\ PagesIdle
    /\ invalidated = QueryKeys          \* nothing is cached yet
    /\ cachedArticles = SampleArticles
    /\ ResolveIdle
    /\ ViewsIdle

NextQueries ==
    \/ \E p \in Pages : Navigate(p, {ValidValues})
    \/ CloseConfirm
    \/ QueryActions(SomeErrors, {ValidValues})
    \/ CategoryActions(SomeErrors)
    \/ NotificationActions(SomeErrors)

SpecQueries == InitQueries /\ [][NextQueries]_vars

\* ------------------------------------------------------------------------
\* SpecForm: the article form alone, over every form value
\* ------------------------------------------------------------------------
InitForm ==
    /\ Mounted("form")
    /\ invalidated = {}
    /\ cachedArticles = SampleArticles
    /\ ResolveIdle
    /\ ViewsIdle

NextForm == FormActions(FormValues, SomeErrors)

SpecForm == InitForm /\ [][NextForm]_vars

\* ------------------------------------------------------------------------
\* SpecTaxonomy: the categories and networks pages over every transport error
\* ------------------------------------------------------------------------
InitTaxonomy ==
    /\ \E p \in {"categories", "networks"} : Mounted(p)
    /\ invalidated = {}
    /\ cachedArticles = SampleArticles
    /\ ResolveIdle
    /\ ViewsIdle

NextTaxonomy ==
    \/ CloseConfirm
    \/ CategoryActions(RawErrors)
    \/ NetworkActions(RawErrors)

SpecTaxonomy == InitTaxonomy /\ [][NextTaxonomy]_vars

\* ------------------------------------------------------------------------
\* SpecPrecheck: the delete pre-check of the categories and networks pages
\* over every cached article shape
\* ------------------------------------------------------------------------
ArticleShapes ==
    CategoryShapes \cup {Article(FALSE, <<>>, Null, nid) : nid \in IdVals}

InitPrecheck ==
    /\ \E p \in {"categories", "networks"} : Mounted(p)
    /\ invalidated = {}
    /\ cachedArticles \in {<<>>} \cup {<<CachedArticle(Num(0), "draft", FALSE, sh)>> : sh \in ArticleShapes}
    /\ ResolveIdle
    /\ ViewsIdle

NextPrecheck ==
    \/ CloseConfirm
    \/ CategoryActions(SomeErrors)
    \/ NetworkActions(SomeErrors)

SpecPrecheck == InitPrecheck /\ [][NextPrecheck]_vars

\* ------------------------------------------------------------------------
\* SpecList: the list of ArticlesPage under every filter and sort state,
\* over every collection of up to MaxRows of the sample articles
\* ------------------------------------------------------------------------
\* the memo `filtered` under filter and sort state f
Filtered(f) == sortArticles(filterArticles(cachedArticles, f), f.sortCol, f.sortDir)

\* a filter control is set; the list is recomputed
SetFilter(field, value) ==
    /\ page = "articles"
    /\ filters[field] # value
    /\ filters' = [filters EXCEPT ![field] = value]
    /\ filtered' = Filtered(filters')
    /\ pageIndex' = 0
    /\ UNCHANGED <<page, pageVars, cacheVars, resolveVars, stats, call, liveVars>>

\* a column header is clicked: the direction flips on the sorted column,
\* another column is sorted ascending
handleSort(col) ==
    /\ page = "articles"
    /\ filters' = IF filters.sortCol = col
                  THEN [filters EXCEPT !.sortDir = IF @ = "asc" THEN "desc" ELSE "asc"]
                  ELSE [filters EXCEPT !.sortCol = col, !.sortDir = "asc"]
    /\ filtered' = Filtered(filters')
    /\ pageIndex' = 0
    /\ UNCHANGED <<page, pageVars, cacheVars, resolveVars, stats, call, liveVars>>

InitList ==
    /\ Mounted("articles")
    /\ invalidated = {}
    /\ cachedArticles \in Collections(ListArticles)
    /\ ResolveIdle
    /\ filters = NoFilters
    /\ filtered = Filtered(NoFilters)
    /\ stats = NoStats
    /\ call = NoCall
    /\ LiveIdle

NextList ==
    \/ \E field \in DOMAIN FilterChoices : \E value \in FilterChoices[field] :
          SetFilter(field, value)
    \/ \E col \in SortCols : handleSort(col)

SpecList == InitList /\ [][NextList]_vars

\* ------------------------------------------------------------------------
\* SpecDashboard: the statistics of DashboardPage over every collection of
\* up to MaxRows articles
\* ------------------------------------------------------------------------
\* DashboardPage renders: the stats memo is computed from the cached data
DashboardRender ==
    /\ page = "dashboard"
    /\ ~stats.done
    /\ stats' = computeStats(cachedArticles, categories)
    /\ UNCHANGED <<page, pageVars, cacheVars, resolveVars, filters, filtered, call, pageIndex,
                   liveVars>>

InitDashboard ==
    /\ Mounted("dashboard")
    /\ invalidated = {}
    /\ cachedArticles \in {[i \in DOMAIN s |-> [s[i] EXCEPT !.id = Num(i)]] :
                              s \in SeqUpTo(DashArticles, MaxRows)}
    /\ article = Article(FALSE, <<>>, Null, Null)
    /\ categories = DashCategories
    /\ rowCat = Unresolved
    /\ derived = [c \in Consumers |-> NotDerived]
    /\ ViewsIdle

NextDashboard == DashboardRender

SpecDashboard == InitDashboard /\ [][NextDashboard]_vars

\* ------------------------------------------------------------------------
\* SpecApi: the helpers of services/api, each over every argument
\* ------------------------------------------------------------------------
\* getArticles builds the query of its request
BuildArticleParams ==
    /\ call.fn = "buildArticleParams"
    /\ ~call.done
    /\ call' = [call EXCEPT !.done = TRUE, !.out = buildArticleParams(call.arg)]
    /\ UNCHANGED <<page, pageVars, cacheVars, resolveVars, filters, filtered, stats, pageIndex,
                   liveVars>>

\* a fetcher normalizes the body of its response
ToArray ==
    /\ call.fn = "toArray"
    /\ ~call.done
    /\ call' = [call EXCEPT !.done = TRUE, !.out = toArray(call.arg)]
    /\ UNCHANGED <<page, pageVars, cacheVars, resolveVars, filters, filtered, stats, pageIndex,
                   liveVars>>

InitApi ==
    /\ PagesIdle
    /\ invalidated = {}
    /\ cachedArticles = <<>>
    /\ ResolveIdle
    /\ filters = NoFilters
    /\ filtered = <<>>
    /\ stats = NoStats
    /\ LiveIdle
    /\ \/ \E params \in ArticleQueryParams :
             /\ ~params.hasCategoryIds => params.categoryIds = <<>>
             /\ call = [fn |-> "buildArticleParams", done |-> FALSE, arg |-> params, out |-> <<>>]
       \/ \E data \in JsonValues :
             call = [fn |-> "toArray", done |-> FALSE, arg |-> data, out |-> <<>>]

NextApi == BuildArticleParams \/ ToArray

SpecApi == InitApi /\ [][NextApi]_vars

\* ------------------------------------------------------------------------
\* SpecPaging: the paginated table of ArticlesPage over a collection of
\* two pages held by a server, with page changes, the status filter,
\* deletions and the refetch that follows them
\* ------------------------------------------------------------------------
\* the memo `paginated`: the rows of the current page
paginated == slice(filtered, pageIndex * PAGE_SIZE, (pageIndex + 1) * PAGE_SIZE)

\* TablePagination's onPageChange: the previous-page button is disabled on
\* page 0, the next-page button on the last page of filtered.length rows
setPage(p) ==
    /\ page = "articles"
    /\ \/ p = pageIndex - 1 /\ pageIndex > 0
       \/ p = pageIndex + 1 /\ (pageIndex + 1) * PAGE_SIZE < Len(filtered)
    /\ pageIndex' = p
    /\ event' = NoEvent
    /\ UNCHANGED <<page, pageVars, pending, invalidated, cachedArticles, resolveVars, filters,
                   filtered, stats, call, liveVars>>

\* the server deletes the article and answers: deleteMut.onSuccess and the
\* call's onSettled run
DeleteArticleSuccess(r) ==
    /\ r \in pending /\ r.mut = "list.deleteMut"
    /\ \E a \in Range(server.articles) : Str(a.id) \in r.ids
    /\ server' = [server EXCEPT !.articles = SelectSeq(@, LAMBDA a : Str(a.id) \notin r.ids)]
    /\ Invalidate(OnSuccessKeys(r.mut), pending \ {r})
    /\ event' = SuccessEvent(r, OnSuccessKeys(r.mut))
    /\ snack' = Snack("Article supprime", "success")
    /\ confirmDelete' = Null
    /\ UNCHANGED <<page, form, selected, bulkStatus, cachedArticles, resolveVars, filters,
                   filtered, stats, call, pageIndex, debounce, selectedArticleId>>

\* the fetch of ['articles','all'] succeeds: the answer to the mounted
\* page's query is cached, and the list memo of ArticlesPage is recomputed
ArticlesQuerySuccess(r) ==
    /\ r \in pending /\ r.mut = "query" /\ r.key = KeyArticlesAll
    /\ pending' = pending \ {r}
    /\ invalidated' = invalidated \ {r.key}
    /\ event' = QuerySuccessEvent(r)
    /\ cachedArticles' = getArticles(server.articles, ArticlesQuery(page))
    /\ filtered' = IF page = "articles"
                   THEN sortArticles(filterArticles(cachedArticles', filters),
                                     filters.sortCol, filters.sortDir)
                   ELSE filtered
    /\ UNCHANGED <<page, pageVars, resolveVars, filters, stats, call, pageIndex, liveVars>>

InitPaging ==
    /\ Mounted("articles")
    /\ invalidated = {}
    /\ cachedArticles = PagingArticles
    /\ ResolveIdle
    /\ filters = NoFilters
    /\ filtered = Filtered(NoFilters)
    /\ stats = NoStats
    /\ call = NoCall
    /\ server = [articles |-> PagingArticles, featuredWrites |-> <<>>]
    /\ pageIndex = 0
    /\ debounce = NoDebounce
    /\ selectedArticleId = Null

NextPaging ==
    \/ \E p \in {pageIndex - 1, pageIndex + 1} : setPage(p)
    \/ \E st \in {"", "published"} : SetFilter("statusFilter", st)
    \/ \E a \in Range(paginated) \cap Range(server.articles) :
          Len(server.articles) > Len(PagingArticles) - MaxDeletes /\ RequestDeleteArticle(a)
    \/ ConfirmDeleteArticle
    \/ \E r \in pending : DeleteArticleSuccess(r)
    \/ FetchQuery(KeyArticlesAll)
    \/ \E r \in pending : ArticlesQuerySuccess(r)

SpecPaging == InitPaging /\ [][NextPaging]_vars

\* ------------------------------------------------------------------------
\* SpecNotifications: the history of NotificationsPage over every list of
\* up to MaxRows notifications
\* ------------------------------------------------------------------------
\* NotificationsPage renders: the sortedNotifs memo is computed
NotificationsRender ==
    /\ page = "notifications"
    /\ call.fn = "sortedNotifs"
    /\ ~call.done
    /\ call' = [call EXCEPT !.done = TRUE, !.out = sortedNotifs(call.arg)]
    /\ UNCHANGED <<page, pageVars, cacheVars, resolveVars, filters, filtered, stats, pageIndex,
                   liveVars>>

InitNotifications ==
    /\ Mounted("notifications")
    /\ invalidated = {}
    /\ cachedArticles = <<>>
    /\ ResolveIdle
    /\ filters = NoFilters
    /\ filtered = <<>>
    /\ stats = NoStats
    /\ LiveIdle
    /\ \E list \in NotificationLists :
          call = [fn |-> "sortedNotifs", done |-> FALSE, arg |-> list, out |-> <<>>]

NextNotifications == NotificationsRender

SpecNotifications == InitNotifications /\ [][NextNotifications]_vars

\* ------------------------------------------------------------------------
\* SpecCache: the pages that read ['articles','all'] visited in any order
\* within the stale time, over a server holding a published article and a
\* draft, with the send form of NotificationsPage
\* ------------------------------------------------------------------------
\* the server's collection: a published article and a draft
ServedArticles == <<ListArticles[1], ListArticles[3]>>

\* The router mounts page p once the requests of the page left have
\* settled; the page's local state starts from its initial values, the
\* send form from the articleId parameter of the URL.  The cache is kept.
MountPage(p, articleId) ==
    /\ p # page
    /\ pending = {}
    /\ page' = p
    /\ form' = NoForm
    /\ snack' = NoSnack
    /\ confirmDelete' = Null
    /\ selected' = {}
    /\ bulkStatus' = ""
    /\ filters' = NoFilters
    /\ filtered' = IF p = "articles" THEN Filtered(NoFilters) ELSE <<>>
    /\ pageIndex' = 0
    /\ selectedArticleId' = IF p = "notifications" THEN articleId ELSE Null
    /\ event' = NoEvent
    /\ UNCHANGED <<pending, invalidated, cachedArticles, resolveVars, stats, call, server, debounce>>

\* the Article select of the send form: the empty entry, or one of the
\* articles read from ['articles','all']
selectArticle(id) ==
    /\ page = "notifications"
    /\ id = Null \/ \E a \in Rows : id = Str(a.id)
    /\ id # selectedArticleId
    /\ selectedArticleId' = id
    /\ event' = NoEvent
    /\ UNCHANGED <<page, pageVars, pending, invalidated, cachedArticles, resolveVars, filters,
                   filtered, stats, call, pageIndex, server, debounce>>

\* Envoyer with canSend: an id is chosen, the recipients are valid and
\* sendMut is not pending; notifyArticle(selectedArticleId, payload)
sendSelected ==
    /\ page = "notifications"
    /\ selectedArticleId # Null
    /\ ~IsPending("notif.sendMut")
    /\ CanSend
    /\ pending' = pending \cup {MutReq("notif.sendMut", {selectedArticleId})}
    /\ event' = SentEvent("notif.sendMut", NoValues, {selectedArticleId})
    /\ UNCHANGED <<page, pageVars, invalidated, cachedArticles, resolveVars, viewVars>>

InitCache ==
    /\ PagesIdle
    /\ invalidated = QueryKeys
    /\ cachedArticles = <<>>
    /\ ResolveIdle
    /\ filters = NoFilters
    /\ filtered = <<>>
    /\ stats = NoStats
    /\ call = NoCall
    /\ server = [articles |-> ServedArticles, featuredWrites |-> <<>>]
    /\ pageIndex = 0
    /\ debounce = NoDebounce
    /\ selectedArticleId = Null

NextCache ==
    \/ \E p \in Pages \ {"form"} :
          \E articleId \in {Null} \cup {Str(a.id) : a \in Range(server.articles)} :
             MountPage(p, articleId)
    \/ FetchQuery(KeyArticlesAll)
    \/ \E r \in pending : ArticlesQuerySuccess(r)
    \/ \E id \in {Null} \cup {Str(a.id) : a \in Rows} : selectArticle(id)
    \/ sendSelected
    \/ \E r \in pending : NotificationMutationSuccess(r)
    \/ \E r \in pending, raw \in {e \in RawErrors : e.bodyMessage = Undefined /\ e.message # ""} :
          NotificationMutationFailure(r, raw)

SpecCache == InitCache /\ [][NextCache]_vars

\* ------------------------------------------------------------------------
\* SpecSelection: the rows of ArticlesPage over a server holding two
\* articles, with the bulk selection, deletions, featured toggles, bulk
\* status changes and the refetch that follows a write
\* ------------------------------------------------------------------------
\* the answer of the server for an article it does not hold
NotFoundError == [response |-> TRUE, status |-> 404, bodyMessage |-> Undefined,
                  message |-> "Request failed"]

\* the featured toggle of a row: featuredMut.mutate({ id, featured:
\* !article.featured }) with the flag of the cached row
clickFeatured(a) ==
    /\ page = "articles" /\ a \in Rows
    /\ CanSend
    /\ pending' = pending \cup
          {[mut |-> "list.featuredMut", key |-> <<>>, ids |-> {Str(a.id)}, failureCount |-> 0,
            featured |-> ~a.featured]}
    /\ event' = SentEvent("list.featuredMut", NoValues, {Str(a.id)})
    /\ UNCHANGED <<page, pageVars, invalidated, cachedArticles, resolveVars, viewVars>>

\* the server stores the flag it was sent and answers: featuredMut.onSuccess
FeaturedSuccess(r) ==
    /\ r \in pending /\ r.mut = "list.featuredMut"
    /\ \E a \in Range(server.articles) : Str(a.id) \in r.ids
    /\ server' = [articles |-> [i \in DOMAIN server.articles |->
                                  IF Str(server.articles[i].id) \in r.ids
                                  THEN [server.articles[i] EXCEPT !.featured = r.featured]
                                  ELSE server.articles[i]],
                  featuredWrites |-> server.featuredWrites \o <<CHOOSE id \in r.ids : TRUE>>]
    /\ Invalidate(OnSuccessKeys(r.mut), pending \ {r})
    /\ event' = SuccessEvent(r, OnSuccessKeys(r.mut))
    /\ UNCHANGED <<page, pageVars, cachedArticles, resolveVars, filters, filtered, stats, call,
                   pageIndex, debounce, selectedArticleId>>

\* applyBulkStatus after the await: the server has set the status of every
\* article it holds among the requested ones and has answered 404 for the
\* others; Promise.all is fulfilled when no request failed
BulkStatusSettles(r) ==
    LET applied == r.ids \cap {Str(a.id) : a \in Range(server.articles)}
        keys == IF applied = r.ids THEN OnSuccessKeys(r.mut) ELSE OnErrorKeys(r.mut)
    IN  /\ r \in pending /\ r.mut = "list.bulkStatus"
        /\ server' = [server EXCEPT !.articles =
                         [i \in DOMAIN @ |-> IF Str(@[i].id) \in applied
                                             THEN [@[i] EXCEPT !.status = bulkStatus] ELSE @[i]]]
        /\ Invalidate(keys, pending \ {r})
        /\ IF applied = r.ids
           THEN /\ event' = SuccessEvent(r, keys)
                /\ selected' = {}
                /\ bulkStatus' = ""
                /\ snack' = Snack(ToString(Cardinality(r.ids)) \o " articles mis a jour", "success")
           ELSE /\ event' = FailureEvent(r, NotFoundError, keys, applied)
                /\ snack' = Snack(interceptor(NotFoundError).msg, "error")
                /\ UNCHANGED <<selected, bulkStatus>>
        /\ UNCHANGED <<page, form, confirmDelete, cachedArticles, resolveVars, filters, filtered,
                       stats, call, pageIndex, debounce, selectedArticleId>>

InitSelection ==
    /\ Mounted("articles")
    /\ invalidated = {}
    /\ cachedArticles = ServedArticles
    /\ ResolveIdle
    /\ filters = NoFilters
    /\ filtered = Filtered(NoFilters)
    /\ stats = NoStats
    /\ call = NoCall
    /\ server = [articles |-> ServedArticles, featuredWrites |-> <<>>]
    /\ pageIndex = 0
    /\ debounce = NoDebounce
    /\ selectedArticleId = Null

\* the user acts on rows the server still holds; the bulk status is chosen
\* before the bulk action is started
NextSelection ==
    \/ \E a \in Rows : toggleOne(Str(a.id))
    \/ \E a \in Rows \cap Range(server.articles) :
          Len(server.articles) > Len(ServedArticles) - MaxDeletes /\ RequestDeleteArticle(a)
    \/ ConfirmDeleteArticle
    \/ \E r \in pending : DeleteArticleSuccess(r)
    \/ \E a \in Rows : \E b \in Range(server.articles) :
          a.id = b.id /\ Len(server.featuredWrites) < MaxToggles /\ clickFeatured(a)
    \/ \E r \in pending : FeaturedSuccess(r)
    \/ ~IsPending("list.bulkStatus") /\ SetBulkStatus("archived")
    \/ applyBulkStatus
    \/ \E r \in pending : BulkStatusSettles(r)
    \/ FetchQuery(KeyArticlesAll)
    \/ \E r \in pending : ArticlesQuerySuccess(r)

SpecSelection == InitSelection /\ [][NextSelection]_vars

\* ------------------------------------------------------------------------
\* SpecSearch: the search box of ArticlesPage and its debounce timer, over
\* every collection of up to MaxRows of the sample articles; time advances
\* in steps of a third of the delay
\* ------------------------------------------------------------------------
DebounceMs == 300
TickMs == DebounceMs \div 3

\* the texts typed into the search box
SearchTexts == {<<>>, <<"a">>, <<"a", "b">>}

clearTimeout_keepsTimer(timers, handle) == timers

\* clearTimeout(handle): the timer of that handle, if still armed, is dropped
clearTimeout(timers, handle) == {t \in timers : t.id # handle}

\* The search box changes to v.  The effect on [searchInput] runs its
\* cleanup and its body: the timer of searchTimer.current is cleared and a
\* new timer that will apply v is armed.
onSearchChange(v) ==
    /\ page = "articles"
    /\ v # debounce.searchInput
    /\ debounce.searchTimer < MaxTimers
    /\ debounce' = [searchInput |-> v,
                    searchTimer |-> debounce.searchTimer + 1,
                    timers |-> clearTimeout(debounce.timers, debounce.searchTimer)
                               \cup {[id |-> debounce.searchTimer + 1, value |-> v,
                                      remaining |-> DebounceMs]},
                    heldMs |-> 0]
    /\ event' = NoEvent
    /\ UNCHANGED <<page, pageVars, pending, invalidated, cachedArticles, resolveVars, filters,
                   filtered, stats, call, pageIndex, server, selectedArticleId>>

\* TickMs pass while no timer is due
Tick ==
    /\ \A t \in debounce.timers : t.remaining > 0
    /\ debounce' = [debounce EXCEPT
                       !.timers = {[t EXCEPT !.remaining = IF @ > TickMs THEN @ - TickMs ELSE 0] :
                                      t \in @},
                       !.heldMs = IF @ + TickMs < DebounceMs THEN @ + TickMs ELSE DebounceMs]
    /\ debounce' # debounce
    /\ event' = NoEvent
    /\ UNCHANGED <<page, pageVars, pending, invalidated, cachedArticles, resolveVars, filters,
                   filtered, stats, call, pageIndex, server, selectedArticleId>>

\* a due timer runs its callback: setSearch(searchInput) with the value the
\* effect closed over, setPage(0); the list is recomputed
timerFires(t) ==
    /\ t \in debounce.timers /\ t.remaining = 0
    /\ debounce' = [debounce EXCEPT !.timers = @ \ {t}]
    /\ filters' = [filters EXCEPT !.search = t.value]
    /\ filtered' = Filtered(filters')
    /\ pageIndex' = 0
    /\ event' = NoEvent
    /\ UNCHANGED <<page, pageVars, pending, invalidated, cachedArticles, resolveVars, stats, call,
                   server, selectedArticleId>>

\* ArticlesPage freshly mounted: the effect has armed the first timer
InitSearch ==
    /\ Mounted("articles")
    /\ invalidated = {}
    /\ cachedArticles \in Collections(ListArticles)
    /\ ResolveIdle
    /\ filters = NoFilters
    /\ filtered = Filtered(NoFilters)
    /\ stats = NoStats
    /\ call = NoCall
    /\ server = NoServer
    /\ pageIndex = 0
    /\ debounce = [searchInput |-> <<>>, searchTimer |-> 1,
                   timers |-> {[id |-> 1, value |-> <<>>, remaining |-> DebounceMs]},
                   heldMs |-> 0]
    /\ selectedArticleId = Null

NextSearch ==
    \/ \E v \in SearchTexts : onSearchChange(v)
    \/ Tick
    \/ \E t \in debounce.timers : timerFires(t)

SpecSearch == InitSearch /\ [][NextSearch]_vars

\* ========================================================================
\* Properties
\* ========================================================================

\* C1 (as stated, under Spec): every successful write to an article
\* (create, manual update, featured toggle, periodic auto-save, delete,
\* single status change, bulk status change) invalidates every cached query
\* key with prefix ['articles'].
ArticleWriteInvalidatesArticles ==
    (event.kind = "mutation" /\ event.ok /\ event.mut \in ArticleWrites)
        => /\ invalidateQueries(<<"articles">>) \subseteq event.inv
           /\ invalidateQueries(<<"articles">>) \subseteq invalidated

\* C1 witness: an auto-save has succeeded and the article collection is not
\* invalid.
AutoSaveLeavesArticlesFresh ==
    /\ event.kind = "mutation" /\ event.ok
    /\ event.mut = "form.autoSave"
    /\ KeyArticlesAll \notin invalidated

\* C2 (under Spec): a step in which a mutation fails leaves the set
\* of invalidated query keys unchanged and invalidates nothing itself.
FailureInvalidatesNothing ==
    [][(event'.kind = "mutation" /\ ~event'.ok)
          => (invalidated' = invalidated /\ event'.inv = {})]_vars

\* C2 witness: a delete of an article has failed and the article collection
\* is still fresh.
FailedDeleteLeavesCacheFresh ==
    /\ event.kind = "mutation" /\ ~event.ok
    /\ event.mut = "list.deleteMut"
    /\ KeyArticlesAll \notin invalidated

\* C3 (as stated, under Spec): every successful notify call, from
\* the notifications page, from the article form's Notifier button or from
\* the articles list, invalidates ['notifications'].
NotifyInvalidatesNotifications ==
    (event.kind = "mutation" /\ event.ok /\ event.mut \in NotifyCalls)
        => /\ KeyNotifications \in event.inv
           /\ KeyNotifications \in invalidated

\* C3 witness: a notify call of the article form has succeeded and the
\* notification history is not invalid.
FormNotifyLeavesHistoryFresh ==
    /\ event.kind = "mutation" /\ event.ok
    /\ event.mut = "form.notifyMut"
    /\ KeyNotifications \notin invalidated

DeleteRefusedWhenInUse ==
    LET assoc(a) == IF a.hasCategoryIds /\ a.categoryIds # <<>>
                    THEN {Str(a.categoryIds[i]) : i \in DOMAIN a.categoryIds}
                    ELSE IF a.categoryId # Null THEN {Str(a.categoryId)} ELSE {}
        catInUse(id) == \E i \in DOMAIN cachedArticles : Str(id) \in assoc(cachedArticles[i])
        netInUse(id) == \E i \in DOMAIN cachedArticles :
                            /\ cachedArticles[i].networkId # Null
                            /\ Str(cachedArticles[i].networkId) = Str(id)
    IN  /\ page = "categories" =>
              /\ confirmDelete # Null => ~catInUse(confirmDelete)
              /\ \A r \in pending : r.mut = "cat.deleteMut" => \A id \in r.ids : ~catInUse(id)
        /\ page = "networks" =>
              /\ confirmDelete # Null => ~netInUse(confirmDelete)
              /\ \A r \in pending : r.mut = "net.deleteMut" => \A id \in r.ids : ~netInUse(id)

\* C5 witness: the only cached article has categoryIds = [] and the scalar
\* categoryId 1, and the DELETE request for category 1 has been sent.
DeleteSentForCategoryInUse ==
    /\ page = "categories"
    /\ Len(cachedArticles) = 1
    /\ cachedArticles[1].hasCategoryIds /\ cachedArticles[1].categoryIds = <<>>
    /\ cachedArticles[1].categoryId = Num(1)
    /\ event.kind = "sent" /\ event.mut = "cat.deleteMut"
    /\ event.ids = {Num(1)}

\* C6 (as stated, under SpecForm): every create or update request
\* that carries article form data, from the manual submit or from the
\* periodic auto-save, carries values that pass the validation schema.
OnlyValidFormDataSent ==
    (event.kind = "sent" /\ event.mut \in {"form.createMut", "form.updateMut", "form.autoSave"})
        => schema(event.vals)

\* C6 witness: the auto-save has sent values that fail the schema.
AutoSaveSendsInvalidValues ==
    /\ event.kind = "sent" /\ event.mut = "form.autoSave"
    /\ ~schema(event.vals)

ResolveCategoryPrecedence ==
    rowCat.done =>
        LET key == IF article.hasCategoryIds /\ article.categoryIds # <<>>
                   THEN Str(Head(article.categoryIds))
                   ELSE IF article.categoryId # Null THEN Str(article.categoryId) ELSE Null
            hits == {i \in DOMAIN categories : Str(categories[i].id) = key}
        IN  IF key = Null \/ hits = {} THEN rowCat.cat = NoCategory
            ELSE rowCat.cat \in {categories[i] : i \in hits}

\* C9 witness: the article has a non-empty list and a scalar naming two
\* different categories of the table, and the row resolved to the category
\* of the first list id.
ListWinsOverScalar ==
    /\ rowCat.done
    /\ article.hasCategoryIds /\ article.categoryIds # <<>>
    /\ article.categoryId # Null
    /\ Str(Head(article.categoryIds)) # Str(article.categoryId)
    /\ \E i \in DOMAIN categories : Str(categories[i].id) = Str(article.categoryId)
    /\ rowCat.cat # NoCategory
    /\ Str(rowCat.cat.id) = Str(Head(article.categoryIds))

\* C10 (as stated, under SpecConsumers): the table row, the category
\* filter, the dashboard aggregate and the categories-page count derive the
\* same set of category ids for the article: the list if non-empty, else
\* the scalar, else none.
OneFallbackRule ==
    LET rule == IF article.hasCategoryIds /\ article.categoryIds # <<>>
                THEN {Str(article.categoryIds[i]) : i \in DOMAIN article.categoryIds}
                ELSE IF article.categoryId # Null THEN {Str(article.categoryId)} ELSE {}
    IN  \A c \in Consumers : derived[c].done => derived[c].ids = rule

\* C10 witness: for an article with categoryIds = [] and the scalar
\* categoryId 1, the filter and the dashboard derive {"1"} while the table
\* row and the categories-page count derive no id.
EmptyListConsumersDiverge ==
    /\ article.hasCategoryIds /\ article.categoryIds = <<>>
    /\ article.categoryId = Num(1)
    /\ \A c \in Consumers : derived[c].done
    /\ derived["filter"].ids = {Str(Num(1))} /\ derived["dashboard"].ids = {Str(Num(1))}
    /\ derived["row"].ids = {} /\ derived["count"].ids = {}

\* C11 (under SpecList): the list shown holds exactly the articles of the
\* collection that pass every filter applied alone (search, status,
\* categories, network, featured), in the order of the collection before the
\* sort is applied.
FiltersConjunctive ==
    LET alone(field) ==
            Range(filterArticles(cachedArticles, [NoFilters EXCEPT ![field] = filters[field]]))
        kept(a) == \A field \in {"search", "statusFilter", "selectedCats", "networkFilter",
                                 "featuredOnly"} : a \in alone(field)
    IN  filtered = sortArticles(SelectSeq(cachedArticles, kept), filters.sortCol, filters.sortDir)

\* the status filter alone keeps two articles, and with the featured filter
\* only one of them is shown
TwoFiltersIntersect ==
    /\ filters.statusFilter # ""
    /\ filters.featuredOnly
    /\ Len(filtered) = 1
    /\ Len(filterArticles(cachedArticles, [NoFilters EXCEPT !.statusFilter = filters.statusFilter])) = 2

\* C12 (under SpecList): with a non-empty selection an article is shown iff
\* it passes the other filters and one of its resolved category ids (the
\* categoryIds list if non-empty, else the scalar categoryId alone, else
\* none), as a string, is selected; an empty selection keeps every article.
CategoryFilterRule ==
    LET resolved(a) ==
            IF a.hasCategoryIds /\ a.categoryIds # <<>>
            THEN {Str(a.categoryIds[i]) : i \in DOMAIN a.categoryIds}
            ELSE IF a.categoryId # Null THEN {Str(a.categoryId)} ELSE {}
        matches(a) == filters.selectedCats = {} \/ resolved(a) \cap filters.selectedCats # {}
        others == [filters EXCEPT !.selectedCats = {}]
    IN  /\ Range(filtered) = {a \in Range(Filtered(others)) : matches(a)}
        /\ others = [NoFilters EXCEPT !.sortCol = filters.sortCol, !.sortDir = filters.sortDir]
              => Range(filtered) = {a \in Range(cachedArticles) : matches(a)}

\* under the category filter alone, an article with an empty list is shown
\* for its scalar id and an article with neither is left out
LegacyScalarKept ==
    /\ filters.selectedCats # {}
    /\ [filters EXCEPT !.selectedCats = {}, !.sortCol = "createdAt", !.sortDir = "desc"] = NoFilters
    /\ \E a \in Range(filtered) : a.hasCategoryIds /\ a.categoryIds = <<>> /\ a.categoryId # Null
    /\ \E a \in Range(cachedArticles) : a.categoryId = Null /\ ~a.hasCategoryIds /\ a \notin Range(filtered)

\* C13 (under SpecList): when no two articles of the list have equal keys on
\* the sort column, the list sorted descending is the reverse of the list
\* sorted ascending.
DescIsReverseOfAsc ==
    LET list == filterArticles(cachedArticles, filters)
        asc == sortArticles(list, filters.sortCol, "asc")
        Reverse(s) == [i \in DOMAIN s |-> s[Len(s) + 1 - i]]
        noTies == \A i, j \in DOMAIN list :
                     sortKey(list[i], filters.sortCol) = sortKey(list[j], filters.sortCol) => i = j
    IN  noTies => filtered = IF filters.sortDir = "asc" THEN asc ELSE Reverse(asc)

\* two articles of distinct titles are shown by descending title
TwoRowsSortedDescending ==
    /\ filters.sortCol = "title"
    /\ filters.sortDir = "desc"
    /\ Len(filtered) = 2
    /\ localeCompare(sortKey(filtered[1], "title"), sortKey(filtered[2], "title")) > 0

\* C14 (under SpecDashboard): the published, draft and archived counts of
\* the statistics add up to the total, the number of articles of the
\* collection.
StatusCountsPartition ==
    stats.done =>
        /\ stats.total = Len(cachedArticles)
        /\ stats.published + stats.draft + stats.archived = stats.total

\* the statistics of one published and one archived article
PublishedAndArchivedCounted ==
    /\ stats.done
    /\ stats.total = 2
    /\ stats.published = 1
    /\ stats.archived = 1

\* C15 (as stated, under SpecDashboard): each group of the pie data has for
\* value the number of articles whose resolved category list holds the
\* group's id, every listed id has its group, and the values add up to the
\* number of category memberships.
PieValueCountsArticles ==
    stats.done =>
        LET resolved(a) ==
                IF a.hasCategoryIds /\ a.categoryIds # <<>>
                THEN {Str(a.categoryIds[i]) : i \in DOMAIN a.categoryIds}
                ELSE IF a.categoryId # Null THEN {Str(a.categoryId)} ELSE {}
            listing(k) == {i \in DOMAIN cachedArticles : k \in resolved(cachedArticles[i])}
            pie == stats.pieData
        IN  /\ \A j \in DOMAIN pie : pie[j].value = Cardinality(listing(pie[j].key))
            /\ \A i \in DOMAIN cachedArticles : \A k \in resolved(cachedArticles[i]) :
                  \E j \in DOMAIN pie : pie[j].key = k
            /\ Cardinality({<<j, n>> \in (DOMAIN pie) \X (1..2 * MaxRows) : n <= pie[j].value})
                  = Cardinality({<<i, k>> \in (DOMAIN cachedArticles) \X {Str(Num(0)), Str(Num(1))} :
                                    k \in resolved(cachedArticles[i])})

\* C15 (amended, under SpecDashboard): every occurrence of an id in an
\* article's resolved category list (the categoryIds list if non-empty, else
\* the scalar categoryId alone) adds one unit to the group keyed by the id as
\* a string: a group's value is the number of occurrences of its id over the
\* collection, every listed id has one group, and the values add up to the
\* total length of the resolved lists.
PieValueCountsOccurrences ==
    stats.done =>
        LET list(i) ==
                IF cachedArticles[i].hasCategoryIds /\ cachedArticles[i].categoryIds # <<>>
                THEN cachedArticles[i].categoryIds
                ELSE IF cachedArticles[i].categoryId # Null
                     THEN <<cachedArticles[i].categoryId>> ELSE <<>>
            occurrences == {ip \in (DOMAIN cachedArticles) \X (1..MaxCats) :
                               ip[2] \in DOMAIN list(ip[1])}
            of(k) == {ip \in occurrences : Str(list(ip[1])[ip[2]]) = k}
            pie == stats.pieData
        IN  /\ \A j \in DOMAIN pie : pie[j].value = Cardinality(of(pie[j].key))
            /\ \A ip \in occurrences :
                  Cardinality({j \in DOMAIN pie : pie[j].key = Str(list(ip[1])[ip[2]])}) = 1
            /\ Cardinality({<<j, n>> \in (DOMAIN pie) \X (1..2 * MaxRows) : n <= pie[j].value})
                  = Cardinality(occurrences)

\* an article of two categories and an article of one of them: the shared
\* group has the value 2 and the other group the value 1
TwoCategoryArticleInBothGroups ==
    /\ stats.done
    /\ Len(cachedArticles) = 2
    /\ cachedArticles[1].categoryIds = <<Num(1), Num(0)>>
    /\ cachedArticles[2].categoryId = Num(1)
    /\ {<<stats.pieData[j].key, stats.pieData[j].value>> : j \in DOMAIN stats.pieData}
          = {<<Str(Num(1)), 2>>, <<Str(Num(0)), 1>>}

\* C16 (as stated, under SpecDashboard): every article with a network id and
\* no network name is counted in byNetwork under the label synthesized from
\* its id, and only the articles with neither a name nor an id are left out.
NetworkFallbackCounted ==
    stats.done =>
        LET a(i) == cachedArticles[i]
            label(i) == IF a(i).networkName # Undefined THEN a(i).networkName
                        ELSE "Reseau #" \o ToString(a(i).networkId.v)
            counted == {i \in DOMAIN cachedArticles :
                           a(i).networkName # Undefined \/ a(i).networkId # Null}
            groups == stats.byNetwork
        IN  /\ \A i \in counted : \E j \in DOMAIN groups :
                  /\ groups[j].key = label(i)
                  /\ groups[j].value = Cardinality({k \in counted : label(k) = label(i)})
            /\ Cardinality({<<j, n>> \in (DOMAIN groups) \X (1..MaxRows) : n <= groups[j].value})
                  = Cardinality(counted)

\* one article of network id 0 and no network name: byNetwork is empty
NetworkZeroLeftOut ==
    /\ stats.done
    /\ Len(cachedArticles) = 1
    /\ cachedArticles[1].networkId = Num(0)
    /\ cachedArticles[1].networkName = Undefined
    /\ stats.byNetwork = <<>>

\* C17 (under SpecApi): in the mapping built from a query, page and
\* networkId equal to 0 appear as "0"; search and status equal to "" are
\* absent; featured is present only when true and then is "true";
\* categoryIds is absent when empty and otherwise is its elements joined by
\* commas in their order; a fully populated query yields exactly the nine
\* keys, and no query yields any other key.
ParamsOmissionCorrect ==
    (call.fn = "buildArticleParams" /\ call.done) =>
        LET params == call.arg
            q == call.out
            keys == {"page", "limit", "search", "status", "networkId", "featured", "sortBy",
                     "sortDir", "categoryIds"}
            ids == params.categoryIds
            zero == Js("number", 0, "")
            empty == Js("string", 0, "")
            populated == /\ \A k \in keys \ {"categoryIds", "featured"} :
                               params[k].t \in {"number", "string"} /\ params[k] # empty
                         /\ params.featured = Js("boolean", 1, "")
                         /\ params.hasCategoryIds /\ ids # <<>>
        IN  /\ DOMAIN q \subseteq keys
            /\ params.page = zero => "page" \in DOMAIN q /\ q.page = "0"
            /\ params.networkId = zero => "networkId" \in DOMAIN q /\ q.networkId = "0"
            /\ params.search = empty => "search" \notin DOMAIN q
            /\ params.status = empty => "status" \notin DOMAIN q
            /\ "featured" \in DOMAIN q <=> params.featured = Js("boolean", 1, "")
            /\ "featured" \in DOMAIN q => q.featured = "true"
            /\ "categoryIds" \in DOMAIN q <=> params.hasCategoryIds /\ ids # <<>>
            /\ "categoryIds" \in DOMAIN q =>
                  q.categoryIds = IF Len(ids) = 1 THEN StringOf(ids[1])
                                  ELSE StringOf(ids[1]) \o "," \o StringOf(ids[2])
            /\ populated => DOMAIN q = keys

\* the mapping built from {page: 0, networkId: 0, search: "", featured:
\* false, categoryIds: [2, 1]}
ZeroKeptEmptyDropped ==
    /\ call.fn = "buildArticleParams"
    /\ call.done
    /\ call.arg.page = Js("number", 0, "")
    /\ call.arg.networkId = Js("number", 0, "")
    /\ call.arg.search = Js("string", 0, "")
    /\ call.arg.featured = Js("boolean", 0, "")
    /\ DOMAIN call.out = {"page", "networkId", "categoryIds"}
    /\ call.out.categoryIds = "2,1"

\* C18 (as stated, under SpecApi): no key of the mapping built from a query
\* carries the empty string.
NoEmptyParamValue ==
    (call.fn = "buildArticleParams" /\ call.done) =>
        \A k \in DOMAIN call.out : call.out[k] # ""

\* the mapping built from {networkId: ""} carries networkId = ""
EmptyNetworkIdEmitted ==
    /\ call.fn = "buildArticleParams"
    /\ call.done
    /\ call.arg.networkId = Js("string", 0, "")
    /\ DOMAIN call.out = {"networkId"}
    /\ call.out.networkId = ""

\* C19 (under SpecApi): an array is returned unchanged; an object yields the
\* array under the first of the envelope keys, in their order, whose value
\* is an array, whatever lies under the earlier keys; every other value
\* yields the empty sequence, with a warning.
ToArrayNormalizes ==
    (call.fn = "toArray" /\ call.done) =>
        LET data == call.arg
            isArrayAt(i) == /\ EnvelopeKeys[i] \in DOMAIN data.fields
                            /\ data.fields[EnvelopeKeys[i]].t = "array"
        IN  /\ data.t = "array" => call.out = [items |-> data.items, warned |-> FALSE]
            /\ data.t = "object" =>
                  \A i \in DOMAIN EnvelopeKeys :
                      (isArrayAt(i) /\ \A j \in 1..(i - 1) : ~isArrayAt(j))
                          => call.out = [items |-> data.fields[EnvelopeKeys[i]].items,
                                         warned |-> FALSE]
            /\ (data.t # "array" /\ \A i \in DOMAIN EnvelopeKeys : ~isArrayAt(i))
                  => call.out = [items |-> <<>>, warned |-> TRUE]

\* {data: 1, items: [..], results: [..]} yields the array under items
ArrayFoundAfterNonArray ==
    /\ call.fn = "toArray"
    /\ call.done
    /\ call.arg.t = "object"
    /\ DOMAIN call.arg.fields = {"data", "items", "results"}
    /\ call.arg.fields["data"].t = "number"
    /\ call.arg.fields["results"].t = "array"
    /\ call.out = [items |-> <<"items">>, warned |-> FALSE]

\* C20 (as stated, under SpecTaxonomy): a failed request is rejected with
\* the message field of the response body whenever the body carries one,
\* otherwise with a non-empty string, and with the status of the response
\* whenever one was received.
BodyMessageWheneverPresent ==
    (event.kind \in {"mutation", "query"} /\ ~event.ok) =>
        /\ IF event.raw.response /\ event.raw.bodyMessage # Undefined
           THEN event.err.msg = event.raw.bodyMessage
           ELSE event.err.msg # ""
        /\ event.raw.response => event.err.status = event.raw.status

\* C20 (amended, under SpecTaxonomy): a failed request is rejected with the
\* message field of the response body when that field is present and not
\* empty, otherwise with a non-empty string, the transport error's own
\* message or the fixed fallback; the rejection carries the status of the
\* response whenever one was received, and none otherwise.
NonEmptyBodyMessageElseFallback ==
    (event.kind \in {"mutation", "query"} /\ ~event.ok) =>
        /\ IF event.raw.response /\ event.raw.bodyMessage \notin {Undefined, ""}
           THEN event.err.msg = event.raw.bodyMessage
           ELSE event.err.msg # "" /\ event.err.msg \in {event.raw.message, Fallback}
        /\ event.err.status = IF event.raw.response THEN event.raw.status ELSE NoStatus

\* a server error whose body carries an empty message is rejected with the
\* transport error's message and the status 500
EmptyBodyMessageReplaced ==
    /\ event.kind = "mutation"
    /\ ~event.ok
    /\ event.raw.response
    /\ event.raw.bodyMessage = ""
    /\ event.err = [msg |-> event.raw.message, status |-> 500]

\* C26 (as stated, under Spec): once a bulk status change has settled
\* with at least one of its requests applied by the server, the article
\* collection is marked invalid.
BulkAppliedInvalidatesArticles ==
    (event.kind = "mutation" /\ event.mut = "list.bulkStatus" /\ event.applied # {})
        => KeyArticlesAll \in invalidated

\* C26 witness: a bulk status change was rejected after the server applied
\* part of it, and the article collection is still taken as fresh.
PartialBulkFailureLeavesCacheFresh ==
    /\ event.kind = "mutation" /\ ~event.ok
    /\ event.mut = "list.bulkStatus"
    /\ event.applied # {} /\ event.applied # event.ids
    /\ KeyArticlesAll \notin invalidated

\* C27 (as stated, under SpecForm): an edit made on the edit form while the
\* save indicator shows 'saved' moves the indicator to 'unsaved'.
EditAfterSaveMarksUnsaved ==
    [][(/\ page = "form" /\ isEdit
        /\ form.saveState = "saved"
        /\ page' = page /\ form'.mode = form.mode
        /\ form'.values # form.values
        /\ event' = NoEvent)
          => form'.saveState = "unsaved"]_vars

\* C27 witness: the indicator shows 'saved' on an edit form whose isDirty
\* flag is still set, so the isDirty effect will not run on the next edit.
SavedWhileStillDirty ==
    /\ page = "form" /\ isEdit
    /\ form.saveState = "saved"
    /\ form.isDirty
    /\ event.kind = "mutation" /\ event.ok /\ event.mut = "form.autoSave"

\* C21 (under SpecPaging): the visible slice holds exactly the elements of
\* the filtered and sorted list at the zero-based positions p*s up to but
\* excluding p*s + s that exist, in their order; in particular it is empty
\* when the page index lies beyond the last page.
PaginatedIsPageWindow ==
    LET from == pageIndex * PAGE_SIZE
        inWindow == {i \in 0..(Len(filtered) - 1) : from <= i /\ i < from + PAGE_SIZE}
    IN  /\ pageIndex >= 0
        /\ Len(paginated) = Cardinality(inWindow)
        /\ \A k \in 1..Len(paginated) : paginated[k] = filtered[from + k]
        /\ from >= Len(filtered) => paginated = <<>>

\* C21 witness: the table stands on a page beyond the last page of the
\* filtered list and shows no row.
PageBeyondLastIsEmpty ==
    /\ page = "articles"
    /\ pageIndex > 0
    /\ pageIndex * PAGE_SIZE >= Len(filtered)
    /\ paginated = <<>>

\* C24 (as stated, under SpecPaging): whenever the filtered list is not
\* empty, the visible slice is not empty.
PageIndexStaysInRange ==
    filtered # <<>> => paginated # <<>>

\* C24 witness: the only article of the last page was deleted, the
\* collection was refetched, and the table still stands on that page: the
\* filtered list holds one full page and the visible slice is empty.
LastPageEmptiedByDelete ==
    /\ page = "articles"
    /\ event.kind = "query" /\ event.ok
    /\ Len(filtered) = PAGE_SIZE
    /\ pageIndex = 1
    /\ paginated = <<>>

\* C22 (under SpecNotifications): the history lists the notifications it
\* was given, each once, by descending ordering key, notifications of equal
\* key in the order received; the key is the send time when the
\* notification has one, whatever its creation time, else the creation
\* time, else the empty string.
HistoryDescendingBySendTime ==
    LET key(n) == IF n.sentAt.t = "string" THEN n.sentAt.s
                  ELSE IF n.createdAt.t = "string" THEN n.createdAt.s
                  ELSE <<>>
        pos(n) == CHOOSE i \in DOMAIN call.arg : call.arg[i] = n
        out == call.out
    IN  (call.fn = "sortedNotifs" /\ call.done) =>
           /\ Len(out) = Len(call.arg)
           /\ Range(out) = Range(call.arg)
           /\ \A i \in 1..(Len(out) - 1) :
                 LET c == localeCompare(TimeKey(key(out[i])), TimeKey(key(out[i + 1])))
                 IN  c > 0 \/ (c = 0 /\ pos(out[i]) < pos(out[i + 1]))

\* C22 witness: of two notifications that both carry a send time and a
\* creation time, the one created first was sent last, and the history
\* lists it first.
LaterSentListedFirst ==
    /\ call.fn = "sortedNotifs" /\ call.done
    /\ Len(call.arg) = 2
    /\ \A i \in 1..2 : call.arg[i].sentAt.t = "string" /\ call.arg[i].createdAt.t = "string"
    /\ call.arg[1].createdAt.s = <<"2">> /\ call.arg[1].sentAt.s = <<"1">>
    /\ call.arg[2].createdAt.s = <<"1">> /\ call.arg[2].sentAt.s = <<"2">>
    /\ call.out = <<call.arg[2], call.arg[1]>>

\* C23 (as stated, under SpecCache): while the entry ['articles','all'] is
\* fresh, the collection cached under it is the server's full, unfiltered
\* article collection.
ArticlesAllIsFullCollection ==
    KeyArticlesAll \notin invalidated => cachedArticles = server.articles

\* C23 witness: a page that counts or lists articles reads a fresh entry
\* that holds only the published articles, stored by NotificationsPage.
PublishedOnlyReadAsAll ==
    /\ page \in {"articles", "categories", "networks"}
    /\ KeyArticlesAll \notin invalidated
    /\ cachedArticles = getArticles(server.articles, ArticlesQuery("notifications"))
    /\ Len(cachedArticles) < Len(server.articles)

\* C29 (as stated, under SpecCache): every notify request sent from the
\* notifications page names an article that is published.
NotifiedArticleIsPublished ==
    (event.kind = "sent" /\ event.mut = "notif.sendMut") =>
        \A id \in event.ids :
           \E a \in Range(server.articles) : Str(a.id) = id /\ a.status = "published"

\* C29 witness: the send form lists the articles of the shared entry, which
\* ArticlesPage filled with every article; a draft chosen from it is sent.
DraftNotifiedFromSharedCache ==
    /\ event.kind = "sent" /\ event.mut = "notif.sendMut"
    /\ cachedArticles = server.articles
    /\ \E a \in Rows : a.status = "draft" /\ event.ids = {Str(a.id)}

\* C25 (as stated, under SpecSelection): every selected id is the id of an
\* article of the cached collection, and a bulk status change sends no
\* status request for an article the server no longer holds.
SelectionWithinCachedCollection ==
    /\ selected \subseteq {Str(a.id) : a \in Rows}
    /\ (event.kind = "sent" /\ event.mut = "list.bulkStatus") =>
          event.ids \subseteq {Str(a.id) : a \in Range(server.articles)}

\* C25 witness: an article was selected, then deleted, and the collection
\* was refetched without it; the bulk action then sent a status request for
\* its id.
BulkSentForDeletedArticle ==
    /\ event.kind = "sent" /\ event.mut = "list.bulkStatus"
    /\ KeyArticlesAll \notin invalidated
    /\ \E id \in event.ids :
          /\ id \notin {Str(a.id) : a \in Rows}
          /\ id \notin {Str(a.id) : a \in Range(server.articles)}

\* C28 (as stated, under SpecSelection): an article whose featured flag the
\* server has written twice has the flag it had at the start.
TwoTogglesRestoreFlag ==
    \A i \in DOMAIN server.articles :
       LET a == server.articles[i]
           writes == {k \in DOMAIN server.featuredWrites : server.featuredWrites[k] = Str(a.id)}
       IN  Cardinality(writes) = 2 =>
              \E b \in Range(ServedArticles) : b.id = a.id /\ b.featured = a.featured

\* C28 witness: the second toggle of an article has settled while the
\* cached row still shows the flag of the start, the refetch that followed
\* the first toggle not being completed; the server holds the inverted flag.
SecondToggleRepeatsFirst ==
    /\ event.kind = "mutation" /\ event.ok /\ event.mut = "list.featuredMut"
    /\ KeyArticlesAll \in invalidated
    /\ server.featuredWrites = <<Str(Num(1)), Str(Num(1))>>
    /\ \E a \in Rows : a.id = Num(1) /\ a.featured = ListArticles[1].featured
    /\ \E a \in Range(server.articles) : a.id = Num(1) /\ a.featured # ListArticles[1].featured

\* C30 (under SpecSearch): a change of the search input leaves armed only
\* the timer it arms itself, and a step that changes the applied search
\* term sets it to the value the input holds and has held unchanged for
\* the full delay.
AppliedSearchWasHeld ==
    [][/\ debounce'.searchInput # debounce.searchInput =>
             \A t \in debounce'.timers : t.value = debounce'.searchInput
       /\ filters'.search # filters.search =>
             /\ filters'.search = debounce.searchInput
             /\ debounce.heldMs >= DebounceMs]_vars

\* C30 witness: "a" was typed, then "ab" before the delay had passed: the
\* third timer is the only one armed, and "a" was not applied.
SupersededInputCancelled ==
    /\ debounce.searchInput = <<"a", "b">>
    /\ debounce.searchTimer = 3
    /\ debounce.timers = {[id |-> 3, value |-> <<"a", "b">>, remaining |-> DebounceMs]}
    /\ filters.search = <<>>

====
